---- MODULE Spec2Model ----
(***************************************************************************)
(* A model of the layout short-circuit, the gradient colour-stop           *)
(* resolution, the gradient geometry and the path-bounds computations of   *)
(* orbtk (crates api, render and utils).                                   *)
(*                                                                         *)
(* f64 values are modelled exactly as extended rationals <<n, d>>:         *)
(*   d > 0   the rational n/d in lowest terms,                             *)
(*   <<1,0>> +infinity, <<-1,0>> -infinity, <<0,0>> NaN,                   *)
(* with the IEEE-754 rules for division by zero and for NaN, and with the  *)
(* NaN-ignoring f64::min / f64::max of Rust.  Rounding is not modelled,    *)
(* except for the square root of a number that is not the square of a     *)
(* rational, which is rounded down to a multiple of 1/SqrtScale.           *)
(* Angles are in degrees, so that PI is 180; the angles of the model are   *)
(* multiples of PI/2, whose sine and cosine are exact.                     *)
(***************************************************************************)
EXTENDS Integers, Sequences, FiniteSets, TLC

VARIABLES
    \* ---- LayoutSystem (api/src/systems/layout_system.rs) ----
    dirty_widgets,  \* the root's "dirty_widgets" component: a Vec<Entity>
    first_run,      \* ContextProvider::first_run
    layouts,        \* the keys of ContextProvider::layouts
    bounds,         \* the "bounds" component of every entity, or Absent
    desired_size,   \* the desired size cached by every layout object
    window_size,    \* the local `window_size` of the running call
    lay_pc,         \* "idle" | "measuring" | "arranging" | "panicked"
    runs,           \* calls of run_with_context so far
    measure_calls,  \* calls of the root layout object's measure so far
    arrange_calls,  \* calls of the root layout object's arrange so far
    last_run,       \* how the last call ended: "none" | "skipped" | "full"
    \* ---- build_gradient (render/src/raqote/mod_BACKUP_7477.rs) ----
    stops,          \* the input slice: a sequence of [pos, color]
    length,         \* the gradient axis length
    cursor,         \* the scan cursor (0-based, as in the code)
    last_pos,       \* position computed for the previous stop
    g_stops,        \* the output vector of [position, color]
    g_pc,           \* "idle" | "scan" | "done"
    \* ---- brush_to_source (render/src/raqote/mod_BACKUP_7477.rs) ----
    brush,          \* the Brush handed to brush_to_source, or NoBrush
    frame,          \* the frame rectangle <<x, y, width, height>>
    source,         \* the raqote::Source returned, or NoSource
    b_pc,           \* "new" | "built" | "rejected" | "done"
    \* ---- cubic_rect (render/src/common.rs) ----
    c_points,       \* the control points <<p0, p1, p2, p3>>
    c_rect,         \* the Rectangle returned, or NoRect
    c_pc,           \* "idle" | "called" | "done"
    \* ---- RenderContext2D (render/src/raqote/mod.rs) ----
    path,           \* RenderContext2D::path.ops: a sequence of PathOp
    tracked,        \* commands the bounds tracker has received (HEAD side)
    config,         \* RenderContext2D::config: the RenderConfig
    saved_config,   \* RenderContext2D::saved_config: a RenderConfig or NoConfig
    clip,           \* RenderContext2D::clip
    clip_rect,      \* RenderContext2D::clip_rect: a Rectangle or NoRect
    last_rect,      \* RenderContext2D::last_rect
    clip_depth,     \* the depth of the clip stack of the draw target
    sets,           \* calls of a setter so far
    saved_at,       \* history: the configurations at the save() calls that no
                    \* restore() has answered yet, the latest first
    draws,          \* calls that reached the draw target so far
    last_draw,      \* the last call that reached the draw target, or NoDraw
    \* ---- RenderContext2D (render/src/skia/mod.rs) ----
    sk_config,      \* RenderContext2D::config
    sk_saved_states,\* RenderContext2D::saved_states: a stack, the top last
    sk_paint,       \* RenderContext2D::paint: [style, color, stroke_width]
    sk_canvas,      \* the save count of the canvas above its base
    sk_path,        \* the number of commands recorded in RenderContext2D::path
    sk_draws,       \* draw calls that reached the canvas so far
    sk_pc,          \* "ok" | "panicked" (unimplemented!())
    sk_sets,        \* calls of a setter so far
    sk_saved_at,    \* history: [config, stroke_width] at the save() calls that
                    \* no restore() has answered yet, the latest first
    \* ---- RenderContext2D::clip (render/src/raqote/mod_BACKUP_7477.rs) ----
    clip_frames,    \* invocations of clip() on the call stack
    clip_pc,        \* "idle" | "in clip" | "stack overflow"
    \* ---- Window (shell/src/glutin/window.rs) ----
    w_update,       \* Window::update (the flag)
    w_redraw,       \* Window::redraw
    w_close,        \* Window::close
    mouse_pos,      \* Window::mouse_pos
    requests,       \* the WindowRequests in the channel, the oldest first
    control_flow,   \* the ControlFlow of the event loop
    adapter_calls,  \* calls of the window adapter so far
    adapter_last,   \* the last call of the window adapter, or NoCall
    open_result,    \* what the last is_open() returned: "true" | "false",
                    \* or "none"
    \* ---- Text (utils/src/text.rs) ----
    text_a,         \* a Text, [mode, chars], created in short mode
    text_b,         \* a Text with the same history, switched to long mode
    out_a,          \* what the last call on text_a returned
    out_b,          \* what the last call on text_b returned
    text_calls,     \* calls on the two texts so far
    overflow_checks,\* the build panics on integer overflow (debug profile)
    \* ---- TableView (widgets/src/table_view.rs) ----
    selection_mode,     \* the parent's "selection_mode"
    selected_entities,  \* the parent's "selected_entities"
    selected_indices,   \* the parent's "selected_indices"
    item_selected,      \* the "selected" property of every item
    item_enabled,       \* the "enabled" property of every item
    request_selection_toggle,   \* TableViewItemState of every item
    state_selected,     \* TableViewState::selected_entities
    selection_event     \* the indices of the last SelectionChangedEvent

gradVars == <<stops, length, cursor, last_pos, g_stops, g_pc>>

layoutVars == <<dirty_widgets, first_run, layouts, bounds, desired_size,
                window_size, lay_pc, runs, measure_calls, arrange_calls,
                last_run>>

brushVars == <<brush, frame, source, b_pc>>

cubicVars == <<c_points, c_rect, c_pc>>

pathVars == <<path, tracked>>

stateVars == <<config, saved_config, clip, clip_rect, last_rect, clip_depth,
               sets, saved_at>>

drawVars == <<draws, last_draw>>

skiaVars == <<sk_config, sk_saved_states, sk_paint, sk_canvas, sk_path,
              sk_draws, sk_pc, sk_sets, sk_saved_at>>

clipVars == <<clip_frames, clip_pc>>

\* the parts of the program outside the layout system, the gradients, the
\* brushes, the curves, the path and the two render contexts
windowVars == <<w_update, w_redraw, w_close, mouse_pos, requests,
                control_flow, adapter_calls, adapter_last, open_result>>

textVars == <<text_a, text_b, out_a, out_b, text_calls, overflow_checks>>

tableVars == <<selection_mode, selected_entities, selected_indices,
               item_selected, item_enabled, request_selection_toggle,
               state_selected, selection_event>>

restVars == <<clipVars, windowVars, textVars, tableVars>>

vars == <<layoutVars, gradVars, brushVars, cubicVars, pathVars, stateVars,
          drawVars, skiaVars, restVars>>

\* the variables each part of the model leaves alone
nonLayoutVars == <<gradVars, brushVars, cubicVars, pathVars,
    stateVars, drawVars, skiaVars, restVars>>
nonGradVars == <<layoutVars, brushVars, cubicVars, pathVars,
    stateVars, drawVars, skiaVars, restVars>>
nonBrushVars == <<layoutVars, gradVars, cubicVars, pathVars,
    stateVars, drawVars, skiaVars, restVars>>
nonCubicVars == <<layoutVars, gradVars, brushVars, pathVars,
    stateVars, drawVars, skiaVars, restVars>>
nonStateVars == <<layoutVars, gradVars, brushVars, cubicVars, pathVars,
    drawVars, skiaVars, restVars>>
nonSkiaVars == <<layoutVars, gradVars, brushVars, cubicVars, pathVars,
    stateVars, drawVars, restVars>>
\* the variables the drawing operations of the raqote context leave alone
nonDrawVars == <<layoutVars, gradVars, brushVars, cubicVars, pathVars,
    stateVars, skiaVars, restVars>>
nonPathVars == <<layoutVars, gradVars, brushVars, cubicVars,
    stateVars, drawVars, skiaVars, restVars>>

----------------------------------------------------------------------------
(* f64 arithmetic *)

Abs(n) == IF n < 0 THEN -n ELSE n

Sgn(n) == IF n < 0 THEN -1 ELSE IF n > 0 THEN 1 ELSE 0

RECURSIVE Gcd(_, _)
Gcd(a, b) == IF b = 0 THEN a ELSE Gcd(b, a % b)

Norm(n, d) ==
    IF d = 0 THEN <<Sgn(n), 0>>
    ELSE LET s == IF d < 0 THEN -1 ELSE 1
             g == Gcd(Abs(n), Abs(d))
         IN  <<(s * n) \div g, (s * d) \div g>>

NaN == <<0, 0>>
PosInf == <<1, 0>>
NegInf == <<-1, 0>>
R(n, d) == Norm(n, d)
I(n) == <<n, 1>>

IsNaN(a) == a = NaN
IsInf(a) == a[2] = 0 /\ a[1] # 0
IsFinite(a) == a[2] > 0

FNeg(a) == <<-a[1], a[2]>>

FAdd(a, b) ==
    IF IsNaN(a) \/ IsNaN(b) THEN NaN
    ELSE IF IsInf(a) /\ IsInf(b) THEN (IF a = b THEN a ELSE NaN)
    ELSE IF IsInf(a) THEN a
    ELSE IF IsInf(b) THEN b
    ELSE Norm(a[1] * b[2] + b[1] * a[2], a[2] * b[2])

FSub(a, b) == FAdd(a, FNeg(b))

FMul(a, b) == Norm(a[1] * b[1], a[2] * b[2])

FDiv(a, b) ==
    LET s == IF b[1] < 0 THEN -1 ELSE 1
    IN  Norm(s * a[1] * b[2], s * a[2] * b[1])

FLt(a, b) ==
    IF IsNaN(a) \/ IsNaN(b) THEN FALSE
    ELSE IF IsInf(a) /\ IsInf(b) THEN a[1] < b[1]
    ELSE a[1] * b[2] < b[1] * a[2]

FLe(a, b) ==
    IF IsNaN(a) \/ IsNaN(b) THEN FALSE
    ELSE a = b \/ FLt(a, b)

FGt(a, b) == FLt(b, a)
FGe(a, b) == FLe(b, a)

\* f64::min and f64::max: when one argument is NaN the other is returned
FMin(a, b) == IF IsNaN(a) THEN b ELSE IF IsNaN(b) THEN a
              ELSE IF FLt(b, a) THEN b ELSE a

FMax(a, b) == IF IsNaN(a) THEN b ELSE IF IsNaN(b) THEN a
              ELSE IF FLt(a, b) THEN b ELSE a

Zero == I(0)
One == I(1)

\* the denominator square roots of non-squares are rounded to
SqrtScale == 100

\* the largest k in lo..hi with k * k <= n
RECURSIVE ISqrtIn(_, _, _)
ISqrtIn(n, lo, hi) ==
    IF lo >= hi THEN lo
    ELSE LET mid == (lo + hi + 1) \div 2
         IN  IF mid * mid <= n THEN ISqrtIn(n, mid, hi)
             ELSE ISqrtIn(n, lo, mid - 1)

ISqrt(n) == ISqrtIn(n, 0, IF n < 40000 THEN n ELSE 40000)

IsSquare(n) == n >= 0 /\ ISqrt(n) * ISqrt(n) = n

\* f64::sqrt
FSqrt(a) ==
    IF IsNaN(a) THEN NaN
    ELSE IF a = PosInf THEN PosInf
    ELSE IF a[1] < 0 THEN NaN
    ELSE IF IsSquare(a[1]) /\ IsSquare(a[2])
    THEN R(ISqrt(a[1]), ISqrt(a[2]))
    ELSE R(ISqrt((a[1] * SqrtScale * SqrtScale) \div a[2]), SqrtScale)

\* f64::abs
FAbs(a) == <<Abs(a[1]), a[2]>>

\* the % of Rust on integers: the sign of the result is that of the dividend
RustRem(a, b) == IF a >= 0 THEN a % b ELSE -((-a) % b)

----------------------------------------------------------------------------
(* Point, Rectangle and the positions on a line and on the plane            *)
(* (utils crate)                                                            *)

Point(x, y) == <<x, y>>

PAdd(p, q) == <<FAdd(p[1], q[1]), FAdd(p[2], q[2])>>
PSub(p, q) == <<FSub(p[1], q[1]), FSub(p[2], q[2])>>
PMul(p, q) == <<FMul(p[1], q[1]), FMul(p[2], q[2])>>
PDiv(p, q) == <<FDiv(p[1], q[1]), FDiv(p[2], q[2])>>
PNeg(p) == <<FNeg(p[1]), FNeg(p[2])>>
PScale(p, k) == <<FMul(p[1], k), FMul(p[2], k)>>
PHalf(p) == <<FDiv(p[1], I(2)), FDiv(p[2], I(2))>>

\* Point::distance
distance(p, q) ==
    LET d == PSub(p, q)
    IN  FSqrt(FAdd(FMul(d[1], d[1]), FMul(d[2], d[2])))

\* Rectangle::position, Rectangle::size, Rectangle::width, Rectangle::height
position(r) == <<r[1], r[2]>>
size(r) == <<r[3], r[4]>>
width(r) == r[3]
height(r) == r[4]

----------------------------------------------------------------------------
(* The layout system: api/src/systems/layout_system.rs *)

MaxEntity == 2
MaxDirty == 2
MaxRuns == 3

Entities == 0..MaxEntity
root == 0

Absent == <<>>

\* the window rectangles the shell may write into the root's bounds
WindowRects == {<<0, 0, 100, 50>>, <<0, 0, 200, 100>>}

\* `dirty_widgets.is_empty() && !first_run.get()`
ShortCircuitIgnoringNegation(dirty, fr) == dirty = <<>> /\ fr

\* `dirty_widgets.is_empty()` alone
ShortCircuitOnDirtyOnly(dirty, fr) == dirty = <<>>

ShortCircuit(dirty, fr) == dirty = <<>> /\ ~fr

\* the window size read from the root's bounds, (0, 0) when it has none
WindowSize(b) == IF b[root] = Absent THEN <<0, 0>> ELSE <<b[root][3], b[root][4]>>

\* Layout::measure of the root: every registered layout object caches the
\* desired size of its entity
Measure(d) ==
    [e \in Entities |-> IF e \in layouts THEN <<10 * (e + 1), 10>> ELSE d[e]]

\* Layout::arrange of the root: every registered entity gets its final
\* rectangle inside the window
Arrange(b, sz) ==
    [e \in Entities |->
        IF e \in layouts
        THEN <<0, 0, sz[1], sz[2]>>
        ELSE b[e]]

\* ContextProvider::new, and a component store with an empty dirty list
LayoutInit ==
    /\ dirty_widgets = <<>>
    /\ first_run = TRUE
    /\ layouts = {}
    /\ bounds = [e \in Entities |-> Absent]
    /\ desired_size = [e \in Entities |-> <<0, 0>>]
    /\ window_size = <<0, 0>>
    /\ lay_pc = "idle"
    /\ runs = 0
    /\ measure_calls = 0
    /\ arrange_calls = 0
    /\ last_run = "none"

\* run_with_context, lines 17-27: the call returns at once
RunShortCircuit ==
    /\ lay_pc = "idle"
    /\ runs < MaxRuns
    /\ ShortCircuit(dirty_widgets, first_run)
    /\ runs' = runs + 1
    /\ last_run' = "skipped"
    /\ UNCHANGED <<dirty_widgets, first_run, layouts, bounds, desired_size,
                   window_size, lay_pc, measure_calls, arrange_calls>>
    /\ UNCHANGED nonLayoutVars

\* run_with_context, lines 29-50: the window size is read and the root's
\* measure is called
RunMeasure ==
    /\ lay_pc = "idle"
    /\ runs < MaxRuns
    /\ ~ShortCircuit(dirty_widgets, first_run)
    /\ root \in layouts
    /\ runs' = runs + 1
    /\ window_size' = WindowSize(bounds)
    /\ measure_calls' = measure_calls + 1
    /\ desired_size' = Measure(desired_size)
    /\ lay_pc' = "measuring"
    /\ UNCHANGED <<dirty_widgets, first_run, layouts, bounds, arrange_calls,
                   last_run>>
    /\ UNCHANGED nonLayoutVars

\* a run that returns without a word when the table has no entry for the root
RunSkipsMissingRoot ==
    /\ lay_pc = "idle"
    /\ runs < MaxRuns
    /\ ~ShortCircuit(dirty_widgets, first_run)
    /\ root \notin layouts
    /\ runs' = runs + 1
    /\ window_size' = WindowSize(bounds)
    /\ last_run' = "skipped"
    /\ UNCHANGED <<dirty_widgets, first_run, layouts, bounds, desired_size,
                   lay_pc, measure_calls, arrange_calls>>
    /\ UNCHANGED nonLayoutVars

\* run_with_context, line 44: `layouts.borrow()[&root]` panics when the
\* table has no entry for the root
RunPanic ==
    /\ lay_pc = "idle"
    /\ runs < MaxRuns
    /\ ~ShortCircuit(dirty_widgets, first_run)
    /\ root \notin layouts
    /\ runs' = runs + 1
    /\ window_size' = WindowSize(bounds)
    /\ lay_pc' = "panicked"
    /\ UNCHANGED <<dirty_widgets, first_run, layouts, bounds, desired_size,
                   measure_calls, arrange_calls, last_run>>
    /\ UNCHANGED nonLayoutVars

\* run_with_context, lines 52-59: measure has returned, the root's arrange
\* is called with the window size read before
RunArrange ==
    /\ lay_pc = "measuring"
    /\ arrange_calls' = arrange_calls + 1
    /\ bounds' = Arrange(bounds, window_size)
    /\ lay_pc' = "arranging"
    /\ UNCHANGED <<dirty_widgets, first_run, layouts, desired_size,
                   window_size, runs, measure_calls, last_run>>
    /\ UNCHANGED nonLayoutVars

\* the call returns as soon as a pass has returned
RunReturnAfterAnyPass ==
    /\ lay_pc \in {"measuring", "arranging"}
    /\ lay_pc' = "idle"
    /\ last_run' = "full"
    /\ UNCHANGED <<dirty_widgets, first_run, layouts, bounds, desired_size,
                   window_size, runs, measure_calls, arrange_calls>>
    /\ UNCHANGED nonLayoutVars

\* run_with_context, line 64: arrange has returned, the call returns
RunReturn ==
    /\ lay_pc = "arranging"
    /\ lay_pc' = "idle"
    /\ last_run' = "full"
    /\ UNCHANGED <<dirty_widgets, first_run, layouts, bounds, desired_size,
                   window_size, runs, measure_calls, arrange_calls>>
    /\ UNCHANGED nonLayoutVars

\* a widget is built into the tree: its layout object is registered
RegisterLayout(e) ==
    /\ lay_pc = "idle"
    /\ e \notin layouts
    /\ layouts' = layouts \cup {e}
    /\ UNCHANGED <<dirty_widgets, first_run, bounds, desired_size, window_size,
                   lay_pc, runs, measure_calls, arrange_calls, last_run>>
    /\ UNCHANGED nonLayoutVars

\* a widget is marked for relayout
MarkDirty(e) ==
    /\ lay_pc = "idle"
    /\ Len(dirty_widgets) < MaxDirty
    /\ dirty_widgets' = Append(dirty_widgets, e)
    /\ UNCHANGED <<first_run, layouts, bounds, desired_size, window_size,
                   lay_pc, runs, measure_calls, arrange_calls, last_run>>
    /\ UNCHANGED nonLayoutVars

\* the systems that run after the layout system empty the dirty list
ClearDirty ==
    /\ lay_pc = "idle"
    /\ dirty_widgets # <<>>
    /\ dirty_widgets' = <<>>
    /\ UNCHANGED <<first_run, layouts, bounds, desired_size, window_size,
                   lay_pc, runs, measure_calls, arrange_calls, last_run>>
    /\ UNCHANGED nonLayoutVars

\* the first update cycle is over
EndFirstRun ==
    /\ lay_pc = "idle"
    /\ first_run
    /\ first_run' = FALSE
    /\ UNCHANGED <<dirty_widgets, layouts, bounds, desired_size, window_size,
                   lay_pc, runs, measure_calls, arrange_calls, last_run>>
    /\ UNCHANGED nonLayoutVars

\* the shell resizes the window: the root's bounds are written
Resize(r) ==
    /\ lay_pc = "idle"
    /\ bounds[root] # r
    /\ bounds' = [bounds EXCEPT ![root] = r]
    /\ UNCHANGED <<dirty_widgets, first_run, layouts, desired_size, window_size,
                   lay_pc, runs, measure_calls, arrange_calls, last_run>>
    /\ UNCHANGED nonLayoutVars

LayoutNext ==
    \/ RunShortCircuit
    \/ RunMeasure
    \/ RunPanic
    \/ RunArrange
    \/ RunReturn
    \/ \E e \in Entities : RegisterLayout(e)
    \/ \E e \in Entities : MarkDirty(e)
    \/ ClearDirty
    \/ EndFirstRun
    \/ \E r \in WindowRects : Resize(r)

----------------------------------------------------------------------------
(* Gradient stops: utils/src/gradients.rs (HEAD side) *)

MaxStops == 4

Colors == {"red", "blue"}

None == [kind |-> "None"]
Fraction(v) == [kind |-> "Fraction", v |-> v]
Absolute(v) == [kind |-> "Absolute", v |-> v]

\* the positions a stop of the model may carry
\* (fractions below 0, inside [0,1]; absolute lengths below and above the
\* axis length)
PosVals == {None,
            Fraction(R(-1, 2)), Fraction(R(1, 5)), Fraction(R(4, 5)),
            Absolute(I(1)), Absolute(I(3))}

\* the gradient axis lengths of the model (positive)
Lengths == {I(2)}

GradientStop == [pos : PosVals, color : Colors]

StopLists == UNION {[1..n -> GradientStop] : n \in 0..MaxStops}

\* OnLinePos::unit_percent: the position as a fraction of the axis length
unit_percent(pos, len) ==
    IF pos.kind = "Fraction" THEN pos.v ELSE FDiv(pos.v, len)

----------------------------------------------------------------------------
(* build_gradient, one action per iteration of the outer while loop *)

\* stops[i] with the 0-based index of the code
At(s, i) == s[i + 1]

\* the inner while loop: the first index >= c whose stop has a position,
\* or stops.len() when there is none
RECURSIVE ScanAnchor(_, _)
ScanAnchor(s, c) ==
    IF c >= Len(s) THEN c
    ELSE IF At(s, c).pos # None THEN c
    ELSE ScanAnchor(s, c + 1)

\* `for i in cursor..second_cursor`
InterpolatedRange(c, sc) == c .. (sc - 1)

\* `position: (pos.max(last_pos) as f32)`
Emitted(p, last) == FMax(p, last)

\* `cursor = second_cursor;` after a run that has an anchor
CursorPastAnchor(second_cursor) == second_cursor + 1

\* a scan that resumes on the last stop of the run instead of its anchor
CursorBeforeAnchor(second_cursor) == second_cursor - 1

CursorAfterRun(second_cursor) == second_cursor

\* the computed position of the interpolated stop i
InterpolatedPos(from_pos, to_pos, count, i) ==
    FMin(FAdd(from_pos, FMul(FDiv(FSub(to_pos, from_pos), count), I(i))), One)

\* the for loop, from index i: <<g_stops, last_pos>> after it
RECURSIVE InterpolateFrom(_, _, _, _, _, _, _, _)
InterpolateFrom(s, i, range, from_pos, to_pos, count, out, last) ==
    IF i \notin range THEN <<out, last>>
    ELSE LET p == InterpolatedPos(from_pos, to_pos, count, i)
         IN  InterpolateFrom(s, i + 1, range, from_pos, to_pos, count,
                 Append(out, [position |-> Emitted(p, last),
                              color |-> At(s, i).color]),
                 p)

\* `if let Some(pos) = stops[cursor].pos { ... }`: the state after the branch
ExplicitStep(s, len, c, last, out) ==
    LET pos == FMin(unit_percent(At(s, c).pos, len), One)
    IN  [g_stops |-> Append(out, [position |-> Emitted(pos, last),
                                  color |-> At(s, c).color]),
         last_pos |-> pos,
         cursor |-> c + 1,
         break |-> FALSE]

\* `else { ... }`: the state after the branch, and whether it ended in `break`
InterpolateStep(s, len, c, last, out) ==
    LET second_cursor == ScanAnchor(s, c)
        has_end == second_cursor < Len(s)
        from_pos == IF c = 0 THEN Zero
                    ELSE unit_percent(At(s, c - 1).pos, len)
        count == IF has_end THEN I(second_cursor - c)
                 ELSE FSub(I(second_cursor - c), One)
        to_pos == IF has_end
                  THEN unit_percent(At(s, second_cursor).pos, len)
                  ELSE One
        res == InterpolateFrom(s, c, InterpolatedRange(c, second_cursor),
                               from_pos, to_pos, count, out, last)
    IN  [g_stops |-> res[1],
         last_pos |-> res[2],
         cursor |-> IF has_end THEN CursorAfterRun(second_cursor) ELSE c,
         break |-> ~has_end]

\* build_gradient as a function of its arguments
RECURSIVE BuildFrom(_, _, _, _, _)
BuildFrom(s, len, c, last, out) ==
    IF c >= Len(s) THEN out
    ELSE IF At(s, c).pos # None
    THEN LET r == ExplicitStep(s, len, c, last, out)
         IN  BuildFrom(s, len, r.cursor, r.last_pos, r.g_stops)
    ELSE LET r == InterpolateStep(s, len, c, last, out)
         IN  IF r.break THEN r.g_stops
             ELSE BuildFrom(s, len, r.cursor, r.last_pos, r.g_stops)

build_gradient(s, len) == BuildFrom(s, len, 0, Zero, <<>>)

GradInit ==
    /\ stops \in StopLists
    /\ length \in Lengths
    /\ cursor = 0
    /\ last_pos = Zero
    /\ g_stops = <<>>
    /\ g_pc = "scan"

\* one iteration of the outer loop at a stop with a position
GradExplicit ==
    /\ g_pc = "scan"
    /\ cursor < Len(stops)
    /\ At(stops, cursor).pos # None
    /\ LET r == ExplicitStep(stops, length, cursor, last_pos, g_stops)
       IN  /\ g_stops' = r.g_stops
           /\ last_pos' = r.last_pos
           /\ cursor' = r.cursor
    /\ UNCHANGED <<stops, length, g_pc>>
    /\ UNCHANGED nonGradVars

\* one iteration of the outer loop at a stop without a position; the stop
\* before the run, if any, has one
GradInterpolate ==
    /\ g_pc = "scan"
    /\ cursor < Len(stops)
    /\ At(stops, cursor).pos = None
    /\ (IF cursor = 0 THEN TRUE ELSE At(stops, cursor - 1).pos # None)
    /\ LET r == InterpolateStep(stops, length, cursor, last_pos, g_stops)
       IN  /\ g_stops' = r.g_stops
           /\ last_pos' = r.last_pos
           /\ cursor' = r.cursor
           /\ g_pc' = IF r.break THEN "done" ELSE g_pc
    /\ UNCHANGED <<stops, length>>
    /\ UNCHANGED nonGradVars

\* `None => unreachable!()`: the scan is at an interpolated stop whose
\* predecessor has no position either
AtUnreachable ==
    /\ g_pc = "scan"
    /\ cursor < Len(stops)
    /\ At(stops, cursor).pos = None
    /\ (IF cursor = 0 THEN FALSE ELSE At(stops, cursor - 1).pos = None)

\* the loop condition fails: `g_stops` is returned
GradReturn ==
    /\ g_pc = "scan"
    /\ cursor >= Len(stops)
    /\ g_pc' = "done"
    /\ UNCHANGED <<stops, length, cursor, last_pos, g_stops>>
    /\ UNCHANGED nonGradVars

\* build_gradient is not running
GradIdle ==
    /\ stops = <<>>
    /\ length = One
    /\ cursor = 0
    /\ last_pos = Zero
    /\ g_stops = <<>>
    /\ g_pc = "idle"

GradNext ==
    \/ GradExplicit
    \/ GradInterpolate
    \/ GradReturn

----------------------------------------------------------------------------
(* Brushes: utils/src/brush.rs, utils/src/gradients.rs (HEAD side) *)

MaxBrushStops == 2

\* PI, with the angles in degrees
PI == 180

Directions == {"ToTop", "ToTopRight", "ToRight", "ToBottomRight",
               "ToBottom", "ToBottomLeft", "ToLeft", "ToTopLeft"}

\* the angles of the model: multiples of PI/2, negative ones included
AngleVals == {-180, -90, 0, 90, 180, 270}

\* OnLinePos::pixels: the position in pixels on a line of the given length
pixels(pos, len) ==
    IF pos.kind = "Absolute" THEN pos.v ELSE FMul(pos.v, len)

\* OnPlanePos::pixels: the position in pixels on a plane of the given size
plane_pixels(pos, sz) == Point(pixels(pos.x, sz[1]), pixels(pos.y, sz[2]))

\* OnPlanePos::default()
NoDisplacement == [x |-> Absolute(Zero), y |-> Absolute(Zero)]

Displacements == {NoDisplacement,
                  [x |-> Absolute(I(10)), y |-> Fraction(R(1, 10))]}

\* the frames of the model (of positive size)
Frames == {<<I(0), I(0), I(100), I(100)>>,
           <<I(0), I(0), I(100), I(50)>>,
           <<I(0), I(0), I(200), I(100)>>,
           <<I(10), I(20), I(50), I(100)>>,
           <<I(10), I(20), I(200), I(100)>>}

LinearGradientCoords ==
    {[kind |-> "Ends", start |-> Point(I(0), I(0)), end |-> Point(I(30), I(40))]}
    \cup {[kind |-> "Angle", radians |-> a, displacement |-> d] :
             a \in AngleVals, d \in Displacements}
    \cup {[kind |-> "Direction", direction |-> dir, displacement |-> d] :
             dir \in Directions, d \in Displacements}

\* the positions of the stops of a brush: absent, or a length along the axis
BrushPosVals == {None, Absolute(I(10))}

BrushStopLists ==
    UNION {[1..n -> [pos : BrushPosVals, color : Colors]] :
              n \in 0..MaxBrushStops}

SolidColor(color) == [kind |-> "SolidColor", color |-> color]

LinearGradient(coords, s, repeat) ==
    [kind |-> "Gradient", gkind |-> "Linear", coords |-> coords,
     stops |-> s, repeat |-> repeat]

\* RadialGradientSize: ToClosestSide(circle) and one of the other policies
RadialGradientSizes ==
    {[kind |-> "Radial", size |-> "ToClosestSide", circle |-> c] :
        c \in BOOLEAN}
    \cup {[kind |-> "Radial", size |-> "ToFarthestCorner", circle |-> FALSE]}

RadialGradient(params, s, repeat) ==
    [kind |-> "Gradient", gkind |-> "Radial", coords |-> params,
     stops |-> s, repeat |-> repeat]

\* the brushes a caller may build directly
Brushes ==
    {SolidColor(c) : c \in Colors}
    \cup {LinearGradient(co, s, r) :
             co \in LinearGradientCoords, s \in BrushStopLists, r \in BOOLEAN}
    \cup {RadialGradient(pa, s, r) :
             pa \in RadialGradientSizes, s \in BrushStopLists, r \in BOOLEAN}

NoBrush == [kind |-> "None"]
NoSource == [kind |-> "None"]

----------------------------------------------------------------------------
(* Expression::brush: utils/src/expression.rs *)

\* the stops Expression::gradient_stop yields: a colour alone (position NaN)
\* or a colour with a percentage
ParsedStops == [position : {NaN, R(1, 5), R(4, 5)}, color : Colors]

ParsedStopLists == UNION {[1..n -> ParsedStops] : n \in 0..MaxBrushStops}

\* Expression::angle for a number of degrees
angle(deg) == Abs(RustRem(deg, PI * 2))

\* the inner scan: the first index from c on whose position is not NaN
RECURSIVE ExprScan(_, _)
ExprScan(s, c) ==
    IF c < Len(s) /\ IsNaN(At(s, c).position) THEN ExprScan(s, c + 1) ELSE c

\* `for i in cursor..second_cursor { stops[i].position = ... }`
ExprFill(s, c, sc, from_pos, to_pos, count) ==
    [k \in 1..Len(s) |->
        IF k - 1 >= c /\ k - 1 < sc
        THEN [s[k] EXCEPT !.position =
                 FAdd(from_pos,
                      FMul(FDiv(FSub(to_pos, from_pos), count), I(k - 1)))]
        ELSE s[k]]

\* the while loop that gives every stop a position
RECURSIVE ExprInterpolate(_, _)
ExprInterpolate(s, c) ==
    IF c >= Len(s) THEN s
    ELSE IF IsNaN(At(s, c).position)
    THEN LET second_cursor == ExprScan(s, c)
             has_end == second_cursor < Len(s)
             from_pos == IF c = 0 THEN Zero ELSE At(s, c - 1).position
             to_pos == IF has_end THEN At(s, second_cursor).position ELSE One
             count == IF has_end THEN I(second_cursor - c)
                      ELSE FSub(I(second_cursor - c), One)
         IN  ExprInterpolate(
                 ExprFill(s, c, second_cursor, from_pos, to_pos, count),
                 second_cursor)
    ELSE ExprInterpolate(s, c + 1)

\* Expression::brush for linear-gradient(deg, stops...)
ExpressionBrush(deg, s) ==
    IF Len(s) = 0 THEN NoBrush
    ELSE IF Len(s) = 1 THEN SolidColor(s[1].color)
    ELSE LinearGradient(
             [kind |-> "Angle", radians |-> angle(deg),
              displacement |-> NoDisplacement],
             [k \in 1..Len(s) |->
                 [pos |-> Fraction(ExprInterpolate(s, 0)[k].position),
                  color |-> s[k].color]],
             FALSE)

----------------------------------------------------------------------------
(* brush_to_source: render/src/raqote/mod_BACKUP_7477.rs (HEAD side) and    *)
(* render/src/raqote/mod.rs                                                 *)

\* sine and cosine of a multiple of PI/2
sin(d) ==
    LET m == d % (2 * PI)
    IN  IF m = PI \div 2 THEN One ELSE IF m = 3 * (PI \div 2) THEN I(-1) ELSE Zero

cos(d) ==
    LET m == d % (2 * PI)
    IN  IF m = 0 THEN One ELSE IF m = PI THEN I(-1) ELSE Zero

\* d <= c, where c == (b / a).atan() lies strictly between 0 and PI/2 for a
\* frame of positive size and d is a multiple of PI/2
AtMostC(d) == d <= 0

\* d >= c, likewise
AtLeastC(d) == d >= PI \div 2

\* HEAD: `rad += PI / 2.0; if rad.is_sign_negative() {...} else {...}`
NormalisedAngle(radians) ==
    LET rad == radians + PI \div 2
    IN  IF rad < 0 THEN (PI * 2) - (-rad) ELSE RustRem(rad, PI * 2)

\* `rad >= PI * 2.0 - c || rad <= c`
InLeftWedge(rad) == AtMostC(PI * 2 - rad) \/ AtMostC(rad)

\* `rad >= PI - c && rad <= PI + c`
InRightWedge(rad) == AtMostC(PI - rad) /\ AtMostC(rad - PI)

\* HEAD: `if rad > c || rad < PI - c`
NegatedInTall(rad) == ~AtMostC(rad) \/ ~AtMostC(PI - rad)

\* mod.rs: `if rad >= PI + c || rad <= PI * 2.0 - c`
NegatedInTallCompiled(rad) == AtLeastC(rad - PI) \/ AtLeastC(PI * 2 - rad)

\* the half-vector z of the normalised angle rad in a frame of width a and
\* height b; negTall is the test of the else branch
HalfVector(rad, a, b, negTall) ==
    IF InLeftWedge(rad) \/ InRightWedge(rad)
    THEN LET z == Point(FDiv(a, I(2)),
                        FDiv(FMul(a, sin(rad)), FMul(I(2), cos(rad))))
         IN  IF InLeftWedge(rad) THEN PNeg(z) ELSE z
    ELSE LET z == Point(FDiv(FMul(b, cos(rad)), FMul(I(2), sin(rad))),
                        FDiv(b, I(2)))
         IN  IF negTall THEN PNeg(z) ELSE z

\* HEAD, LinearGradientCoords::Angle: <<start, end>>
AngleEnds(radians, displacement, f) ==
    LET rad == NormalisedAngle(radians)
        z == HalfVector(rad, width(f), height(f), NegatedInTall(rad))
        d == plane_pixels(displacement, size(f))
        centre == PAdd(position(f), PHalf(size(f)))
    IN  <<PAdd(PAdd(centre, PNeg(z)), d), PAdd(PAdd(centre, z), d)>>

\* mod.rs: `rad += PI / 2.0; rad = PI * 2.0 - rad; rad = (rad % (PI * 2.0)).abs()`
NormalisedAngleCompiled(radians) ==
    Abs(RustRem(PI * 2 - (radians + PI \div 2), PI * 2))

\* mod.rs, GradientCoords::Angle: <<start, end>>
AngleEndsCompiled(radians, f) ==
    LET rad == NormalisedAngleCompiled(radians)
        z == HalfVector(rad, width(f), height(f), NegatedInTallCompiled(rad))
        centre == PAdd(position(f), PHalf(size(f)))
    IN  <<PAdd(centre, PNeg(z)), PAdd(centre, z)>>

\* the pair of a direction with its ends exchanged
start_and_end_reversed(d, w, h) ==
    CASE d \in {"ToTop", "ToBottom"} ->
            <<Point(FDiv(w, I(2)), IF d = "ToTop" THEN Zero ELSE h),
              Point(FDiv(w, I(2)), IF d = "ToTop" THEN h ELSE Zero)>>
      [] OTHER -> <<Point(w, FDiv(h, I(2))), Point(Zero, FDiv(h, I(2)))>>

\* <<start, end>> of a direction in a frame of the given width and height
start_and_end_from_direction(d, w, h) ==
    LET mid_width == FDiv(w, I(2))
        mid_height == FDiv(h, I(2))
    IN  CASE d = "ToTop" -> <<Point(mid_width, h), Point(mid_width, Zero)>>
          [] d = "ToTopRight" -> <<Point(Zero, h), Point(w, Zero)>>
          [] d = "ToRight" -> <<Point(Zero, mid_height), Point(w, mid_height)>>
          [] d = "ToBottomRight" -> <<Point(Zero, Zero), Point(w, h)>>
          [] d = "ToBottom" -> <<Point(mid_width, Zero), Point(mid_width, h)>>
          [] d = "ToBottomLeft" -> <<Point(w, Zero), Point(Zero, h)>>
          [] d = "ToLeft" -> <<Point(w, mid_height), Point(Zero, mid_height)>>
          [] d = "ToTopLeft" -> <<Point(w, h), Point(Zero, Zero)>>

Spread(repeat) == IF repeat THEN "Repeat" ELSE "Pad"

LinearSource(s, len, start, end, repeat) ==
    [kind |-> "LinearGradient", stops |-> build_gradient(s, len),
     start |-> start, end |-> end, spread |-> Spread(repeat)]

\* <<radius, scale_x, scale_y>> with the radius of the narrower side for both
RadialGeometryUnscaled(circle, f) ==
    <<FDiv(FMin(width(f), height(f)), I(2)), One, One>>

\* <<radius, scale_x, scale_y>> of ToClosestSide(circle) in the frame f
RadialGeometry(circle, f) ==
    LET wide == FGt(width(f), height(f))
        radius == IF wide THEN FDiv(height(f), I(2))
                  ELSE FDiv(width(f), I(2))
        scale_x == IF wide THEN FDiv(height(f), width(f)) ELSE One
        scale_y == IF wide THEN One ELSE FDiv(width(f), height(f))
    IN  IF circle THEN <<radius, One, One>>
        ELSE <<radius, scale_x, scale_y>>

\* the radial source: Source::new_radial_gradient, then post_scale
RadialSource(s, g, f, repeat) ==
    [kind |-> "RadialGradient",
     stops |-> build_gradient(s, FMul(g[1], I(2))),
     center |-> PAdd(position(f), PHalf(size(f))),
     radius |-> g[1], scale_x |-> g[2], scale_y |-> g[3],
     spread |-> Spread(repeat)]

\* `_ => unimplemented!("{:?}", params.size)`
Unimplemented == [kind |-> "unimplemented"]

\* brush_to_source for a solid colour, a linear or a radial gradient
brush_to_source(b, f) ==
    IF b.kind = "SolidColor" THEN [kind |-> "Solid", color |-> b.color]
    ELSE LET coords == b.coords
         IN  CASE coords.kind = "Radial" ->
                    IF coords.size = "ToClosestSide"
                    THEN RadialSource(b.stops,
                                      RadialGeometry(coords.circle, f),
                                      f, b.repeat)
                    ELSE Unimplemented
               [] coords.kind = "Ends" ->
                    LinearSource(b.stops, distance(coords.end, coords.start),
                                 PAdd(position(f), coords.start),
                                 PAdd(position(f), coords.end), b.repeat)
               [] coords.kind = "Angle" ->
                    LET e == AngleEnds(coords.radians, coords.displacement, f)
                    IN  LinearSource(b.stops, distance(e[2], e[1]),
                                     e[1], e[2], b.repeat)
               [] coords.kind = "Direction" ->
                    LET e == start_and_end_from_direction(
                                 coords.direction, width(f), height(f))
                        d == plane_pixels(coords.displacement, size(f))
                    IN  LinearSource(b.stops, distance(e[2], e[1]),
                                     PAdd(PAdd(e[1], position(f)), d),
                                     PAdd(PAdd(e[2], position(f)), d),
                                     b.repeat)

BrushInit ==
    /\ brush = NoBrush
    /\ frame = <<Zero, Zero, Zero, Zero>>
    /\ source = NoSource
    /\ b_pc = "new"

\* a caller builds a brush value directly
BuildBrush(b) ==
    /\ b_pc = "new"
    /\ brush' = b
    /\ b_pc' = "built"
    /\ UNCHANGED <<frame, source>>
    /\ UNCHANGED nonBrushVars

\* a caller parses linear-gradient(deg, stops...)
ParseBrush(deg, s) ==
    /\ b_pc = "new"
    /\ brush' = ExpressionBrush(deg, s)
    /\ b_pc' = IF brush' = NoBrush THEN "rejected" ELSE "built"
    /\ UNCHANGED <<frame, source>>
    /\ UNCHANGED nonBrushVars

\* the render context resolves the brush against a frame
BrushToSource(f) ==
    /\ b_pc = "built"
    /\ frame' = f
    /\ source' = brush_to_source(brush, f)
    /\ b_pc' = "done"
    /\ UNCHANGED brush
    /\ UNCHANGED nonBrushVars

BrushNext ==
    \/ \E b \in Brushes : BuildBrush(b)
    \/ \E deg \in AngleVals, s \in ParsedStopLists : ParseBrush(deg, s)
    \/ \E f \in Frames : BrushToSource(f)

----------------------------------------------------------------------------
(* Bounds of curves: render/src/common.rs *)

PMin(p, q) == <<FMin(p[1], q[1]), FMin(p[2], q[2])>>
PMax(p, q) == <<FMax(p[1], q[1]), FMax(p[2], q[2])>>
PAbs(p) == <<FAbs(p[1]), FAbs(p[2])>>
PSqrt(p) == <<FSqrt(p[1]), FSqrt(p[2])>>

\* Point::clamp, on every axis
PClamp(p, lo, hi) ==
    <<FMin(FMax(p[1], lo), hi), FMin(FMax(p[2], lo), hi)>>

\* Point::from(v)
PFrom(v) == <<v, v>>

\* Rectangle::new(mi, Size::new(ma.x() - mi.x(), ma.y() - mi.y()))
RectOf(mi, ma) == <<mi[1], mi[2], FSub(ma[1], mi[1]), FSub(ma[2], mi[2])>>

\* the point of the cubic curve at the parameter t (a parameter per axis)
CubicAt(p0, p1, p2, p3, t) ==
    LET s1 == PSub(PFrom(One), t)
    IN  PAdd(PAdd(PAdd(PMul(PMul(PMul(s1, s1), s1), p0),
                       PMul(PMul(PMul(PScale(s1, I(3)), s1), t), p1)),
                  PMul(PMul(PMul(PScale(s1, I(3)), t), t), p2)),
             PMul(PMul(PMul(t, t), t), p3))

\* the coefficients of the derivative of the cubic curve
CubicC(p0, p1) == PAdd(PScale(p0, I(-1)), p1)
CubicB(p0, p1, p2) == PAdd(PSub(p0, PScale(p1, I(2))), p2)
CubicA(p0, p1, p2, p3) ==
    PAdd(PSub(PAdd(PScale(p0, I(-1)), PScale(p1, I(3))), PScale(p2, I(3))), p3)
CubicH(p0, p1, p2, p3) ==
    PSub(PMul(CubicB(p0, p1, p2), CubicB(p0, p1, p2)),
         PMul(CubicA(p0, p1, p2, p3), CubicC(p0, p1)))

\* `((-b - g) / a).clamp(0.0, 1.0)` and `((-b + g) / a).clamp(0.0, 1.0)`
CubicRoots(a, b, c, g) ==
    <<PClamp(PDiv(PSub(PNeg(b), g), a), Zero, One),
      PClamp(PDiv(PAdd(PNeg(b), g), a), Zero, One)>>

\* <<mi, ma>>: the corners of the bounds cubic_rect computes
CubicBounds(p0, p1, p2, p3) ==
    LET mi == PMin(p0, p3)
        ma == PMax(p0, p3)
        c == CubicC(p0, p1)
        b == CubicB(p0, p1, p2)
        a == CubicA(p0, p1, p2, p3)
        h == CubicH(p0, p1, p2, p3)
    IN  IF FGt(h[1], Zero) \/ FGt(h[2], Zero)
        THEN LET g == PSqrt(PAbs(h))
                 t == CubicRoots(a, b, c, g)
                 q1 == CubicAt(p0, p1, p2, p3, t[1])
                 q2 == CubicAt(p0, p1, p2, p3, t[2])
                 onX == FGt(h[1], Zero)
                 onY == FGt(h[2], Zero)
             IN  <<<<IF onX THEN FMin(mi[1], FMin(q1[1], q2[1])) ELSE mi[1],
                     IF onY THEN FMin(mi[2], FMin(q1[2], q2[2])) ELSE mi[2]>>,
                   <<IF onX THEN FMax(ma[1], FMax(q1[1], q2[1])) ELSE ma[1],
                     IF onY THEN FMax(ma[2], FMax(q1[2], q2[2])) ELSE ma[2]>>>>
        ELSE <<mi, ma>>

cubic_rect(p0, p1, p2, p3) ==
    LET m == CubicBounds(p0, p1, p2, p3) IN RectOf(m[1], m[2])

\* the coordinates of the control points of the model
CubicCoords == {I(0), I(50), I(100)}

CubicPoints == CubicCoords \X CubicCoords

\* the square root g is exact on every axis where it is used
ExactRoots(p0, p1, p2, p3) ==
    LET h == CubicH(p0, p1, p2, p3)
    IN  \A k \in 1..2 : FGt(h[k], Zero) => (IsSquare(h[k][1]) /\ h[k][2] = 1)

NoRect == <<>>

CubicInit ==
    /\ c_points \in {q \in CubicPoints \X CubicPoints \X CubicPoints
                            \X CubicPoints :
                        ExactRoots(q[1], q[2], q[3], q[4])}
    /\ c_rect = NoRect
    /\ c_pc = "called"

CubicIdle ==
    /\ c_points = <<>>
    /\ c_rect = NoRect
    /\ c_pc = "idle"

\* the call of cubic_rect returns
CubicRect ==
    /\ c_pc = "called"
    /\ c_rect' = cubic_rect(c_points[1], c_points[2], c_points[3], c_points[4])
    /\ c_pc' = "done"
    /\ UNCHANGED c_points
    /\ UNCHANGED nonCubicVars

CubicNext == CubicRect

----------------------------------------------------------------------------
(* The path of the render context: render/src/raqote/mod.rs *)

MaxPathOps == 3

\* the points a caller passes to the path operations
PathPoints == {Point(I(0), I(0)), Point(I(100), I(0)),
               Point(I(50), I(100)), Point(I(-20), I(40))}

\* the control points a caller passes to the curve operations
ControlPoints == {Point(I(50), I(150)), Point(I(30), I(20))}

\* raqote::PathOp
MoveTo(p) == [op |-> "MoveTo", p |-> p]
LineTo(p) == [op |-> "LineTo", p |-> p]
QuadTo(p1, p2) == [op |-> "QuadTo", p1 |-> p1, p |-> p2]
CubicTo(p1, p2, p3) == [op |-> "CubicTo", p1 |-> p1, p2 |-> p2, p |-> p3]
Close == [op |-> "Close"]

\* the start point p0 of the curve at index i (0-based)
CurveStart(ops, i) ==
    IF i = 0 THEN Point(Zero, Zero)
    ELSE IF At(ops, i - 1).op # "Close" THEN At(ops, i - 1).p
    ELSE IF At(ops, 0).op # "Close" THEN At(ops, 0).p
    ELSE Point(Zero, Zero)

\* common.rs: `p1.x() < mi.x() || p1.x() > ma.x() || p1.y() < mi.y() || ...`
QuadOutside(p1, mi, ma) ==
    \/ FLt(p1[1], mi[1])
    \/ FGt(p1[1], ma[1])
    \/ FLt(p1[2], mi[2])
    \/ FGt(p1[2], ma[2])

\* mod.rs: `p1.x() < mi.x() && p1.x() > ma.x() || p1.y() < mi.y() || ...`
QuadOutsideInline(p1, mi, ma) ==
    \/ (FLt(p1[1], mi[1]) /\ FGt(p1[1], ma[1]))
    \/ FLt(p1[2], mi[2])
    \/ FGt(p1[2], ma[2])

\* the point of the quadratic curve at the parameter t (a parameter per axis)
QuadAt(p0, p1, p2, t) ==
    LET s1 == PSub(PFrom(One), t)
    IN  PAdd(PAdd(PMul(PMul(s1, s1), p0),
                  PMul(PMul(PScale(s1, I(2)), t), p1)),
             PMul(PMul(t, t), p2))

\* <<mi, ma>>: the corners of the bounds of a quadratic curve; outside is the
\* result of the test on the control point
QuadBounds(p0, p1, p2, outside) ==
    LET mi == PMin(p0, p2)
        ma == PMax(p0, p2)
    IN  IF outside
        THEN LET t == PClamp(PDiv(PSub(p0, p1),
                                  PAdd(PSub(p0, PScale(p1, I(2))), p2)),
                             Zero, One)
                 q == QuadAt(p0, p1, p2, t)
             IN  <<PMin(mi, q), PMax(ma, q)>>
        ELSE <<mi, ma>>

quad_rect(p0, p1, p2) ==
    LET m == QuadBounds(p0, p1, p2,
                        QuadOutside(p1, PMin(p0, p2), PMax(p0, p2)))
    IN  RectOf(m[1], m[2])

\* <<x1, y1, x2, y2>> of the operation at index i (not a Close after the
\* first operation)
OpExtent(ops, i) ==
    LET o == At(ops, i)
    IN  CASE o.op \in {"MoveTo", "LineTo"} -> <<o.p[1], o.p[2], o.p[1], o.p[2]>>
          [] o.op = "Close" -> <<Zero, Zero, Zero, Zero>>
          [] o.op = "QuadTo" ->
                LET p0 == CurveStart(ops, i)
                    m == QuadBounds(p0, o.p1, o.p,
                             QuadOutsideInline(o.p1, PMin(p0, o.p),
                                               PMax(p0, o.p)))
                IN  <<m[1][1], m[1][2], m[2][1], m[2][2]>>
          [] o.op = "CubicTo" ->
                LET m == CubicBounds(CurveStart(ops, i), o.p1, o.p2, o.p)
                IN  <<m[1][1], m[1][2], m[2][1], m[2][2]>>

\* `if x1 < rect.x() {...}` without the correction of the width
GrowLeftKeepingWidth(r, x1) ==
    IF FLt(x1, r[1]) THEN <<x1, r[2], r[3], r[4]>> ELSE r

\* `if x1 < rect.x() { rect.set_width(...); rect.set_x(x1); }`
GrowLeft(r, x1) ==
    IF FLt(x1, r[1])
    THEN <<x1, r[2], FSub(FAdd(r[3], r[1]), x1), r[4]>>
    ELSE r

\* `if y1 < rect.y() { rect.set_height(...); rect.set_y(y1); }`
GrowUp(r, y1) ==
    IF FLt(y1, r[2])
    THEN <<r[1], y1, r[3], FSub(FAdd(r[4], r[2]), y1)>>
    ELSE r

\* `if x2 > rect.x() + rect.width() { rect.set_width(x2 - rect.x()); }`
GrowRight(r, x2) ==
    IF FGt(x2, FAdd(r[1], r[3])) THEN <<r[1], r[2], FSub(x2, r[1]), r[4]>>
    ELSE r

\* `if y2 > rect.y() + rect.height() { rect.set_height(y2 - rect.y()); }`
GrowDown(r, y2) ==
    IF FGt(y2, FAdd(r[2], r[4])) THEN <<r[1], r[2], r[3], FSub(y2, r[2])>>
    ELSE r

\* one turn of the loop of path_rect on the extent e of an operation
Grow(rect, e, first) ==
    IF first
    THEN <<e[1], e[2], FSub(e[3], e[1]), FSub(e[4], e[2])>>
    ELSE GrowDown(GrowRight(GrowUp(GrowLeft(rect, e[1]), e[2]), e[3]), e[4])

\* the loop of path_rect from index i on
RECURSIVE PathRectFrom(_, _, _, _)
PathRectFrom(ops, i, rect, first) ==
    IF i >= Len(ops) THEN rect
    ELSE IF At(ops, i).op = "Close" /\ i # 0
    THEN PathRectFrom(ops, i + 1, rect, first)
    ELSE CHOOSE r \in {PathRectFrom(ops, i + 1, grown, FALSE) :
                         grown \in {Grow(rect, e, first) :
                                      e \in {OpExtent(ops, i)}}} : TRUE

\* RenderContext2D::path_rect
path_rect(ops) == PathRectFrom(ops, 0, <<Zero, Zero, Zero, Zero>>, TRUE)

\* RenderContext2D::new
PathInit ==
    /\ path = <<>>
    /\ tracked = 0

begin_path ==
    /\ path' = <<>>
    /\ tracked' = 0
    /\ UNCHANGED nonPathVars

\* a path command other than bezier_curve_to: the builder's path is stored
\* and the tracker is told
PathCommand(o) ==
    /\ tracked < MaxPathOps
    /\ path' = Append(path, o)
    /\ tracked' = tracked + 1
    /\ UNCHANGED nonPathVars

close_path == PathCommand(Close)

move_to(p) == PathCommand(MoveTo(p))

line_to(p) == PathCommand(LineTo(p))

quadratic_curve_to(cp, p) == PathCommand(QuadTo(cp, p))

\* the path builder that received the curve is dropped; the tracker is told
bezier_curve_to(cp1, cp2, p) ==
    /\ tracked < MaxPathOps
    /\ path' = path
    /\ tracked' = tracked + 1
    /\ UNCHANGED nonPathVars

PathNext ==
    \/ begin_path
    \/ close_path
    \/ \E p \in PathPoints : move_to(p)
    \/ \E p \in PathPoints : line_to(p)
    \/ \E cp \in ControlPoints, p \in PathPoints : quadratic_curve_to(cp, p)
    \/ \E cp1 \in ControlPoints, cp2 \in ControlPoints, p \in PathPoints :
           bezier_curve_to(cp1, cp2, p)

----------------------------------------------------------------------------
(* The canvas state of the render context: render/src/raqote/mod.rs *)

MaxSets == 2
MaxSaves == 2
MaxClips == 2

\* a gradient brush
GradientBrush ==
    LinearGradient([kind |-> "Direction", direction |-> "ToTop",
                    displacement |-> NoDisplacement],
                   <<[pos |-> None, color |-> "red"],
                     [pos |-> None, color |-> "blue"]>>, FALSE)

\* the brushes a caller sets as fill or stroke style
StyleBrushes == {SolidColor("red"), SolidColor("blue"), GradientBrush}

LineWidths == {I(3)}
Alphas == {R(1, 2)}
Families == {"Mono"}
FontSizes == {I(20)}

\* RenderConfig::default()
DefaultConfig ==
    [fill_style |-> SolidColor("black"),
     stroke_style |-> SolidColor("black"),
     line_width |-> One,
     alpha |-> One,
     family |-> "Roboto",
     font_size |-> I(12)]

NoConfig == <<>>

\* the size the context is created with
ContextSize == <<I(200), I(100)>>

\* RenderContext2D::new: the canvas state
StateInit ==
    /\ config = DefaultConfig
    /\ saved_config = NoConfig
    /\ clip = FALSE
    /\ clip_rect = NoRect
    /\ last_rect = <<Zero, Zero, ContextSize[1], ContextSize[2]>>
    /\ clip_depth = 0
    /\ sets = 0
    /\ saved_at = <<>>

\* a setter stores v in the field f of the configuration
SetConfig(f, v) ==
    /\ sets < MaxSets
    /\ sets' = sets + 1
    /\ config' = [config EXCEPT ![f] = v]
    /\ UNCHANGED <<saved_config, clip, clip_rect, last_rect, clip_depth,
                   saved_at>>
    /\ UNCHANGED nonStateVars

set_line_width(line_width) == SetConfig("line_width", line_width)

set_alpha(alpha) == SetConfig("alpha", alpha)

set_font_family(family) == SetConfig("family", family)

set_font_size(sz) == SetConfig("font_size", FAdd(sz, I(4)))

set_fill_style(fill_style) == SetConfig("fill_style", fill_style)

set_stroke_style(stroke_style) == SetConfig("stroke_style", stroke_style)

\* `self.saved_config = Some(self.config.clone())`
save ==
    /\ Len(saved_at) < MaxSaves
    /\ saved_config' = config
    /\ saved_at' = <<config>> \o saved_at
    /\ UNCHANGED <<config, clip, clip_rect, last_rect, clip_depth, sets>>
    /\ UNCHANGED nonStateVars

\* DrawTarget::pop_clip: the clip stack loses its top entry, if it has one
PopClip(depth) == IF depth > 0 THEN depth - 1 ELSE 0

restore ==
    /\ clip' = FALSE
    /\ clip_rect' = NoRect
    /\ clip_depth' = PopClip(clip_depth)
    /\ config' = IF saved_config # NoConfig THEN saved_config ELSE config
    /\ saved_config' = NoConfig
    /\ saved_at' = IF saved_at = <<>> THEN <<>> ELSE Tail(saved_at)
    /\ UNCHANGED <<last_rect, sets>>
    /\ UNCHANGED nonStateVars

\* RenderContext2D::clip
clip_path ==
    /\ clip_depth < MaxClips
    /\ clip_rect' = last_rect
    /\ clip' = TRUE
    /\ clip_depth' = clip_depth + 1
    /\ UNCHANGED <<config, saved_config, last_rect, sets, saved_at>>
    /\ UNCHANGED nonStateVars

StateNext ==
    \/ \E v \in LineWidths : set_line_width(v)
    \/ \E v \in Alphas : set_alpha(v)
    \/ \E v \in Families : set_font_family(v)
    \/ \E v \in FontSizes : set_font_size(v)
    \/ \E b \in StyleBrushes : set_fill_style(b)
    \/ \E b \in StyleBrushes : set_stroke_style(b)
    \/ save
    \/ restore
    \/ clip_path

----------------------------------------------------------------------------
(* clip() of the merge revision: render/src/raqote/mod_BACKUP_7477.rs *)

\* the invocations of clip() the call stack has room for
MaxClipFrames == 3

ClipInit ==
    /\ clip_frames = 0
    /\ clip_pc = "idle"

\* the first three statements of clip()
ClipBody ==
    /\ clip_rect' = last_rect
    /\ clip' = TRUE
    /\ clip_depth' = clip_depth + 1
    /\ UNCHANGED <<config, saved_config, last_rect, sets, saved_at>>
    /\ UNCHANGED <<layoutVars, gradVars, brushVars, cubicVars, pathVars,
                   drawVars, skiaVars, windowVars, textVars, tableVars>>

\* a caller calls clip()
clip_call ==
    /\ clip_pc = "idle"
    /\ ClipBody
    /\ clip_frames' = 1
    /\ clip_pc' = "in clip"

\* the fourth statement, `self.clip();`: clip() calls itself
clip_recurse ==
    /\ clip_pc = "in clip"
    /\ clip_frames < MaxClipFrames
    /\ ClipBody
    /\ clip_frames' = clip_frames + 1
    /\ UNCHANGED clip_pc

\* no room on the call stack for one more invocation
clip_overflow ==
    /\ clip_pc = "in clip"
    /\ clip_frames = MaxClipFrames
    /\ clip_pc' = "stack overflow"
    /\ UNCHANGED <<clip_frames, stateVars>>
    /\ UNCHANGED <<layoutVars, gradVars, brushVars, cubicVars, pathVars,
                   drawVars, skiaVars, windowVars, textVars, tableVars>>

ClipNext ==
    \/ clip_pc = "idle" /\ \E v \in LineWidths : set_line_width(v)
    \/ clip_pc = "idle" /\ \E b \in StyleBrushes : set_fill_style(b)
    \/ clip_pc = "idle" /\ save
    \/ clip_pc = "idle" /\ restore
    \/ clip_call
    \/ clip_recurse
    \/ clip_overflow

----------------------------------------------------------------------------
(* Drawing with the render context: render/src/raqote/mod.rs *)

MaxDraws == 1

NoDraw == [op |-> "none"]

\* the families of the fonts registered with the context
RegisteredFonts == {"Roboto"}

Texts == {"", "ab"}

\* Color::a
Alpha(color) == IF color = "transparent" THEN 0 ELSE 255

\* the draw target before its first call
DrawInit ==
    /\ draws = 0
    /\ last_draw = NoDraw

\* DrawTarget::fill with the resolved fill style
fill ==
    /\ draws < MaxDraws
    /\ draws' = draws + 1
    /\ \E rect \in {path_rect(path)} :
          last_draw' = [op |-> "fill",
                        frame |-> rect,
                        source |-> brush_to_source(config.fill_style, rect),
                        alpha |-> config.alpha]
    /\ UNCHANGED nonDrawVars

\* DrawTarget::stroke with the resolved stroke style
stroke ==
    /\ draws < MaxDraws
    /\ draws' = draws + 1
    /\ \E rect \in {path_rect(path)} :
          last_draw' = [op |-> "stroke",
                        frame |-> rect,
                        source |-> brush_to_source(config.stroke_style, rect),
                        width |-> config.line_width,
                        alpha |-> config.alpha]
    /\ UNCHANGED nonDrawVars

\* `match self.config.fill_style { SolidColor(color) => color, _ => "#000000" }`
TextColor(style) == IF style.kind = "SolidColor" THEN style.color ELSE "black"

fill_text(text) ==
    LET color == TextColor(config.fill_style)
    IN  /\ draws < MaxDraws
        /\ IF \/ text = ""
              \/ Alpha(color) = 0
              \/ config.alpha = Zero
              \/ config.family \notin RegisteredFonts
           THEN UNCHANGED <<draws, last_draw>>
           ELSE /\ draws' = draws + 1
                /\ last_draw' = [op |-> "fill_text", text |-> text,
                                 color |-> color, clipped |-> clip,
                                 alpha |-> config.alpha]
        /\ UNCHANGED nonDrawVars

\* `match *brush { SolidColor(color) => ..., _ => SolidSource {0, 0, 0x80, 0x80} }`
ClearColor(b) ==
    IF b.kind = "SolidColor" THEN b.color ELSE "rgba(0, 0, 128, 128)"

clear(b) ==
    /\ draws < MaxDraws
    /\ draws' = draws + 1
    /\ last_draw' = [op |-> "clear", color |-> ClearColor(b)]
    /\ UNCHANGED nonDrawVars

DrawNext ==
    \/ \E b \in StyleBrushes : set_fill_style(b)
    \/ \E b \in StyleBrushes : set_stroke_style(b)
    \/ \E v \in Families : set_font_family(v)
    \/ begin_path
    \/ \E q \in ControlPoints : move_to(q)
    \/ fill
    \/ stroke
    \/ \E text \in Texts : fill_text(text)
    \/ \E b \in StyleBrushes : clear(b)

----------------------------------------------------------------------------
(* The render context of the Skia backend: render/src/skia/mod.rs *)

MaxSkiaDraws == 1

\* Paint::default() with anti-aliasing
DefaultPaint ==
    [style |-> "Fill", color |-> "black", stroke_width |-> Zero]

\* RenderContext2D::new_ex
SkiaInit ==
    /\ sk_config = DefaultConfig
    /\ sk_saved_states = <<>>
    /\ sk_paint = DefaultPaint
    /\ sk_canvas = 0
    /\ sk_path = 0
    /\ sk_draws = 0
    /\ sk_pc = "ok"
    /\ sk_sets = 0
    /\ sk_saved_at = <<>>

\* a setter stores v in the field f of the configuration
SkiaSetConfig(f, v) ==
    /\ sk_pc = "ok"
    /\ sk_sets < MaxSets
    /\ sk_sets' = sk_sets + 1
    /\ sk_config' = [sk_config EXCEPT ![f] = v]
    /\ UNCHANGED <<sk_saved_states, sk_paint, sk_canvas, sk_path, sk_draws,
                   sk_pc, sk_saved_at>>
    /\ UNCHANGED nonSkiaVars

\* `self.paint.set_stroke_width(line_width as f32)`
skia_set_line_width(line_width) ==
    /\ sk_pc = "ok"
    /\ sk_sets < MaxSets
    /\ sk_sets' = sk_sets + 1
    /\ sk_paint' = [sk_paint EXCEPT !.stroke_width = line_width]
    /\ UNCHANGED <<sk_config, sk_saved_states, sk_canvas, sk_path, sk_draws,
                   sk_pc, sk_saved_at>>
    /\ UNCHANGED nonSkiaVars

\* the body is `// TODO`
skia_set_alpha(alpha) ==
    /\ sk_pc = "ok"
    /\ sk_sets < MaxSets
    /\ sk_sets' = sk_sets + 1
    /\ UNCHANGED <<sk_config, sk_saved_states, sk_paint, sk_canvas, sk_path,
                   sk_draws, sk_pc, sk_saved_at>>
    /\ UNCHANGED nonSkiaVars

skia_set_font_family(family) == SkiaSetConfig("family", family)

skia_set_font_size(sz) == SkiaSetConfig("font_size", sz)

skia_set_fill_style(fill_style) == SkiaSetConfig("fill_style", fill_style)

skia_set_stroke_style(stroke_style) ==
    SkiaSetConfig("stroke_style", stroke_style)

\* begin_path empties the path
skia_begin_path ==
    /\ sk_pc = "ok"
    /\ sk_path' = 0
    /\ UNCHANGED <<sk_config, sk_saved_states, sk_paint, sk_canvas, sk_draws,
                   sk_pc, sk_sets, sk_saved_at>>
    /\ UNCHANGED nonSkiaVars

\* move_to, line_to, quadratic_curve_to, bezier_curve_to, rect, arc and
\* close_path record a command in the path
skia_path_command ==
    /\ sk_pc = "ok"
    /\ sk_path < MaxPathOps
    /\ sk_path' = sk_path + 1
    /\ UNCHANGED <<sk_config, sk_saved_states, sk_paint, sk_canvas, sk_draws,
                   sk_pc, sk_sets, sk_saved_at>>
    /\ UNCHANGED nonSkiaVars

skia_save ==
    /\ sk_pc = "ok"
    /\ Len(sk_saved_at) < MaxSaves
    /\ sk_saved_states' = Append(sk_saved_states, sk_config)
    /\ sk_canvas' = sk_canvas + 1
    /\ sk_saved_at' = <<[config |-> sk_config,
                         stroke_width |-> sk_paint.stroke_width]>>
                      \o sk_saved_at
    /\ UNCHANGED <<sk_config, sk_paint, sk_path, sk_draws, sk_pc, sk_sets>>
    /\ UNCHANGED nonSkiaVars

skia_restore ==
    /\ sk_pc = "ok"
    /\ sk_canvas' = IF sk_canvas > 0 THEN sk_canvas - 1 ELSE 0
    /\ sk_config' = IF sk_saved_states # <<>>
                    THEN sk_saved_states[Len(sk_saved_states)]
                    ELSE sk_config
    /\ sk_saved_states' = IF sk_saved_states # <<>>
                          THEN SubSeq(sk_saved_states, 1,
                                      Len(sk_saved_states) - 1)
                          ELSE <<>>
    /\ sk_saved_at' = IF sk_saved_at = <<>> THEN <<>> ELSE Tail(sk_saved_at)
    /\ UNCHANGED <<sk_paint, sk_path, sk_draws, sk_pc, sk_sets>>
    /\ UNCHANGED nonSkiaVars

\* update_paint(stroke), then the draw call of fill() or stroke()
SkiaDraw(is_stroke) ==
    LET style == IF is_stroke THEN sk_config.stroke_style
                 ELSE sk_config.fill_style
    IN  /\ sk_pc = "ok"
        /\ sk_draws < MaxSkiaDraws
        /\ IF style.kind = "SolidColor"
           THEN /\ sk_paint' = [sk_paint EXCEPT
                                   !.style = IF is_stroke THEN "Stroke"
                                             ELSE "Fill",
                                   !.color = style.color]
                /\ sk_draws' = sk_draws + 1
                /\ sk_pc' = sk_pc
           ELSE /\ sk_paint' = [sk_paint EXCEPT
                                   !.style = IF is_stroke THEN "Stroke"
                                             ELSE "Fill"]
                /\ sk_draws' = sk_draws
                /\ sk_pc' = "panicked"
        /\ UNCHANGED <<sk_config, sk_saved_states, sk_canvas, sk_path,
                       sk_sets, sk_saved_at>>
        /\ UNCHANGED nonSkiaVars

skia_fill == SkiaDraw(FALSE)

skia_stroke == SkiaDraw(TRUE)

SkiaNext ==
    \/ \E v \in LineWidths : skia_set_line_width(v)
    \/ \E v \in Alphas : skia_set_alpha(v)
    \/ \E v \in Families : skia_set_font_family(v)
    \/ \E v \in FontSizes : skia_set_font_size(v)
    \/ \E b \in StyleBrushes : skia_set_fill_style(b)
    \/ \E b \in StyleBrushes : skia_set_stroke_style(b)
    \/ skia_begin_path
    \/ skia_path_command
    \/ skia_save
    \/ skia_restore
    \/ skia_fill
    \/ skia_stroke

----------------------------------------------------------------------------
(* The window of the glutin shell: shell/src/glutin/window.rs *)

MaxRequests == 2
MaxAdapterCalls == 2

\* the id of this window and the id of another window of the application
OwnId == 1
OtherId == 2
WindowIds == {OwnId, OtherId}

scale_factor == 2

\* the variables the window leaves alone
nonWindowVars == <<layoutVars, gradVars, brushVars, cubicVars, pathVars,
    stateVars, drawVars, skiaVars, clipVars, textVars, tableVars>>

WindowRequests == {"Redraw", "ChangeTitle", "Close"}

\* physical sizes and positions glutin reports
PhysicalSizes == {<<200, 100>>}
PhysicalPositions == {<<10, 20>>, <<40, 60>>}

\* the window events of glutin
Events ==
    {[kind |-> "Resized", window_id |-> w, size |-> sz] :
        w \in WindowIds, sz \in PhysicalSizes}
    \cup {[kind |-> k, window_id |-> w] :
            k \in {"CloseRequested", "KeyboardInput", "Focused"},
            w \in WindowIds}
    \cup {[kind |-> "MouseInput", window_id |-> w, state |-> st,
           button |-> b] :
            w \in WindowIds, st \in {"Pressed", "Released"},
            b \in {"Left", "Other"}}
    \cup {[kind |-> "MouseWheel", window_id |-> w, delta |-> d] :
            w \in WindowIds, d \in {"LineDelta", "PixelDelta"}}
    \cup {[kind |-> "CursorMoved", window_id |-> w, position |-> pos] :
            w \in WindowIds, pos \in PhysicalPositions}

NoCall == [fn |-> "none"]

\* PhysicalPosition::to_logical
to_logical(pos, scale) == <<pos[1] \div scale, pos[2] \div scale>>

\* Window::new
WindowInit ==
    /\ w_update = TRUE
    /\ w_redraw = TRUE
    /\ w_close = FALSE
    /\ mouse_pos = <<0, 0>>
    /\ requests = <<>>
    /\ control_flow = "Poll"
    /\ adapter_calls = 0
    /\ adapter_last = NoCall
    /\ open_result = "none"

\* Window::is_open
is_open ==
    /\ open_result' = "true"
    /\ UNCHANGED <<w_update, w_redraw, w_close, mouse_pos, requests,
                   control_flow, adapter_calls, adapter_last>>
    /\ UNCHANGED nonWindowVars

\* the adapter is called
Call(c) ==
    /\ adapter_calls' = adapter_calls + 1
    /\ adapter_last' = c

\* the button and the state handed to WindowAdapter::mouse_event
MouseEventOf(e) ==
    [fn |-> "mouse_event", position |-> mouse_pos,
     button |-> IF e.button = "Other" THEN "Left" ELSE e.button,
     state |-> IF e.state = "Pressed" THEN "Down" ELSE "Up"]

\* Window::drain_events
drain_events(e) ==
    /\ adapter_calls < MaxAdapterCalls
    /\ CASE e.kind = "Resized" ->
              IF e.window_id # OwnId
              THEN UNCHANGED <<w_update, w_redraw, mouse_pos, control_flow,
                               adapter_calls, adapter_last>>
              ELSE /\ Call([fn |-> "resize", size |-> e.size])
                   /\ w_update' = TRUE
                   /\ control_flow' = "Wait"
                   /\ UNCHANGED <<w_redraw, mouse_pos>>
         [] e.kind = "CloseRequested" ->
              IF e.window_id # OwnId
              THEN UNCHANGED <<w_update, w_redraw, mouse_pos, control_flow,
                               adapter_calls, adapter_last>>
              ELSE /\ Call([fn |-> "quit_event"])
                   /\ control_flow' = "Exit"
                   /\ UNCHANGED <<w_update, w_redraw, mouse_pos>>
         [] e.kind = "KeyboardInput" ->
              /\ control_flow' = "Wait"
              /\ UNCHANGED <<w_update, w_redraw, mouse_pos, adapter_calls,
                             adapter_last>>
         [] e.kind = "MouseInput" ->
              /\ Call(MouseEventOf(e))
              /\ w_update' = TRUE
              /\ w_redraw' = TRUE
              /\ control_flow' = "Wait"
              /\ UNCHANGED mouse_pos
         [] e.kind = "MouseWheel" ->
              IF e.window_id # OwnId
              THEN UNCHANGED <<w_update, w_redraw, mouse_pos, control_flow,
                               adapter_calls, adapter_last>>
              ELSE /\ IF e.delta = "PixelDelta"
                      THEN Call([fn |-> "scroll"])
                      ELSE UNCHANGED <<adapter_calls, adapter_last>>
                   /\ w_redraw' = TRUE
                   /\ w_update' = TRUE
                   /\ control_flow' = "Wait"
                   /\ UNCHANGED mouse_pos
         [] e.kind = "CursorMoved" ->
              IF e.window_id # OwnId
              THEN UNCHANGED <<w_update, w_redraw, mouse_pos, control_flow,
                               adapter_calls, adapter_last>>
              ELSE /\ mouse_pos' = to_logical(e.position, scale_factor)
                   /\ Call([fn |-> "mouse", position |-> mouse_pos'])
                   /\ w_update' = TRUE
                   /\ w_redraw' = TRUE
                   /\ control_flow' = "Wait"
         [] OTHER ->
              /\ control_flow' = "Wait"
              /\ UNCHANGED <<w_update, w_redraw, mouse_pos, adapter_calls,
                             adapter_last>>
    /\ UNCHANGED <<w_close, requests, open_result>>
    /\ UNCHANGED nonWindowVars

\* the application sends a request through the channel
send_request(r) ==
    /\ Len(requests) < MaxRequests
    /\ requests' = Append(requests, r)
    /\ UNCHANGED <<w_update, w_redraw, w_close, mouse_pos, control_flow,
                   adapter_calls, adapter_last, open_result>>
    /\ UNCHANGED nonWindowVars

\* Window::receive_requests: every request in the channel is handled
receive_requests ==
    LET has(r) == \E i \in 1..Len(requests) : requests[i] = r
        redrawn == has("Redraw") \/ has("ChangeTitle")
    IN  /\ w_update' = (w_update \/ redrawn)
        /\ w_redraw' = (w_redraw \/ redrawn)
        /\ w_close' = (w_close \/ has("Close"))
        /\ requests' = <<>>
        /\ UNCHANGED <<mouse_pos, control_flow, adapter_calls, adapter_last,
                       open_result>>
        /\ UNCHANGED nonWindowVars

\* Window::update
window_update ==
    /\ adapter_calls < MaxAdapterCalls
    /\ IF ~w_update
       THEN UNCHANGED <<w_update, w_redraw, adapter_calls, adapter_last>>
       ELSE /\ Call([fn |-> "run"])
            /\ w_update' = FALSE
            /\ w_redraw' = TRUE
    /\ UNCHANGED <<w_close, mouse_pos, requests, control_flow, open_result>>
    /\ UNCHANGED nonWindowVars

\* Window::render
window_render ==
    /\ w_redraw' = FALSE
    /\ UNCHANGED <<w_update, w_close, mouse_pos, requests, control_flow,
                   adapter_calls, adapter_last, open_result>>
    /\ UNCHANGED nonWindowVars

WindowNext ==
    \/ is_open
    \/ \E e \in Events : drain_events(e)
    \/ \E r \in WindowRequests : send_request(r)
    \/ receive_requests
    \/ window_update
    \/ window_render

----------------------------------------------------------------------------
(* Text in its two storage modes: utils/src/text.rs *)

MaxTextLen == 3
MaxTextCalls == 3

Chars == {"a", "b"}

\* the strings handed to From and insert_str
Strings == {<<>>} \cup {<<c>> : c \in Chars} \cup {<<"a", "b">>}

\* the bounds of a RangeBounds<usize>
RangeBound ==
    {<<"Unbounded", 0>>}
    \cup {<<k, i>> : k \in {"Included", "Excluded"}, i \in 0..MaxTextLen}

Ranges == [start : RangeBound, end : RangeBound]

\* the variables the texts leave alone
nonTextVars == <<layoutVars, gradVars, brushVars, cubicVars, pathVars,
    stateVars, drawVars, skiaVars, clipVars, windowVars, tableVars>>

\* Iterator::take and Iterator::skip on the characters of a string
Take(str, n) == SubSeq(str, 1, IF n < Len(str) THEN n ELSE Len(str))
Skip(str, n) ==
    SubSeq(str, (IF n < Len(str) THEN n ELSE Len(str)) + 1, Len(str))

\* the panic of a call
Panic == [op |-> "panic"]

\* `match char_range.start_bound()`
first_half_offset(r) ==
    CASE r.start[1] = "Included" -> r.start[2]
      [] r.start[1] = "Excluded" -> r.start[2] + 1
      [] r.start[1] = "Unbounded" -> 0

\* `match char_range.end_bound()` of the short mode: Unbounded => 0
second_half_offset(r) ==
    CASE r.end[1] = "Included" -> r.end[2] + 1
      [] r.end[1] = "Excluded" -> r.end[2]
      [] r.end[1] = "Unbounded" -> 0

\* the end of the range in Rope::remove: Unbounded is the length of the rope
RopeEnd(r, str) ==
    CASE r.end[1] = "Included" -> r.end[2] + 1
      [] r.end[1] = "Excluded" -> r.end[2]
      [] r.end[1] = "Unbounded" -> Len(str)

\* Text::get_string
get_string(t, start, len) ==
    IF t.mode = "Long" /\ start > Len(t.chars) THEN Panic
    ELSE [op |-> "get_string", v |-> Take(Skip(t.chars, start), len)]

\* Text::insert_str: the characters afterwards (Rope::insert panics past
\* the end)
InsertPanics(t, char_idx) == t.mode = "Long" /\ char_idx > Len(t.chars)

insert_str(t, char_idx, str) ==
    [t EXCEPT !.chars = Take(@, char_idx) \o str \o Skip(@, char_idx)]

\* Text::remove_range: `second_half_offset - first_half_offset` overflows
\* when the end is before the start; Rope::remove panics on a range that is
\* reversed or ends past the end
RemovePanics(t, r, checks) ==
    IF t.mode = "Long"
    THEN \/ first_half_offset(r) > RopeEnd(r, t.chars)
         \/ RopeEnd(r, t.chars) > Len(t.chars)
    ELSE checks /\ second_half_offset(r) < first_half_offset(r)

remove_range(t, r) ==
    LET f == first_half_offset(r)
    IN  IF t.mode = "Long"
        THEN [t EXCEPT !.chars = Take(@, f) \o Skip(@, RopeEnd(r, @))]
        ELSE IF second_half_offset(r) < f
        THEN [t EXCEPT !.chars = Take(@, f)]
        ELSE [t EXCEPT !.chars =
                 Take(@, f) \o Skip(Skip(@, f), second_half_offset(r) - f)]

\* Text::from(str), and the same text after long_text_mode()
TextFrom(str, checks) ==
    /\ text_a = [mode |-> "Short", chars |-> str]
    /\ text_b = [mode |-> "Long", chars |-> str]
    /\ out_a = [op |-> "none"]
    /\ out_b = [op |-> "none"]
    /\ text_calls = 0
    /\ overflow_checks = checks

TextInit == \E str \in Strings, checks \in BOOLEAN : TextFrom(str, checks)

\* Text::default() with no call made
TextIdle == TextFrom(<<>>, FALSE)

\* one call on both texts: the call panics on a text or gives it its new
\* value and the caller its result
TextCall(pa, pb, ta, tb, oa, ob) ==
    /\ text_calls < MaxTextCalls
    /\ out_a # Panic /\ out_b # Panic
    /\ text_calls' = text_calls + 1
    /\ text_a' = IF pa THEN text_a ELSE ta
    /\ text_b' = IF pb THEN text_b ELSE tb
    /\ out_a' = IF pa THEN Panic ELSE oa
    /\ out_b' = IF pb THEN Panic ELSE ob
    /\ UNCHANGED overflow_checks
    /\ UNCHANGED nonTextVars

TextInsertStr(char_idx, str) ==
    /\ Len(text_a.chars) + Len(str) <= MaxTextLen
    /\ Len(text_b.chars) + Len(str) <= MaxTextLen
    /\ TextCall(InsertPanics(text_a, char_idx), InsertPanics(text_b, char_idx),
                insert_str(text_a, char_idx, str),
                insert_str(text_b, char_idx, str),
                [op |-> "insert_str"], [op |-> "insert_str"])

\* Text::push: the short mode pushes, the long mode inserts at len_chars()
TextPush(ch) ==
    /\ Len(text_a.chars) < MaxTextLen
    /\ Len(text_b.chars) < MaxTextLen
    /\ TextCall(FALSE, FALSE,
                [text_a EXCEPT !.chars = Append(@, ch)],
                [text_b EXCEPT !.chars = Append(@, ch)],
                [op |-> "push"], [op |-> "push"])

TextRemoveRange(r) ==
    TextCall(RemovePanics(text_a, r, overflow_checks),
             RemovePanics(text_b, r, overflow_checks),
             remove_range(text_a, r), remove_range(text_b, r),
             [op |-> "remove_range"], [op |-> "remove_range"])

\* Text::clear
TextClear ==
    TextCall(FALSE, FALSE,
             [text_a EXCEPT !.chars = <<>>], [text_b EXCEPT !.chars = <<>>],
             [op |-> "clear"], [op |-> "clear"])

TextGetString(start, len) ==
    TextCall(get_string(text_a, start, len) = Panic,
             get_string(text_b, start, len) = Panic,
             text_a, text_b,
             get_string(text_a, start, len), get_string(text_b, start, len))

\* Text::len_chars and Text::is_empty
TextLenChars ==
    TextCall(FALSE, FALSE, text_a, text_b,
             [op |-> "len_chars", v |-> Len(text_a.chars)],
             [op |-> "len_chars", v |-> Len(text_b.chars)])

TextIsEmpty ==
    TextCall(FALSE, FALSE, text_a, text_b,
             [op |-> "is_empty", v |-> text_a.chars = <<>>],
             [op |-> "is_empty", v |-> text_b.chars = <<>>])

\* Text::long_text_mode and Text::short_text_mode on the first text: the
\* characters go through Rope::from_str or export_string
TextMode(mode) ==
    /\ text_a.mode # mode
    /\ TextCall(FALSE, FALSE, [text_a EXCEPT !.mode = mode], text_b,
                out_a, out_b)

TextNext ==
    \/ \E i \in 0..MaxTextLen, str \in Strings : TextInsertStr(i, str)
    \/ \E ch \in Chars : TextPush(ch)
    \/ \E r \in Ranges : TextRemoveRange(r)
    \/ TextClear
    \/ \E i \in 0..MaxTextLen, n \in 0..MaxTextLen : TextGetString(i, n)
    \/ TextLenChars
    \/ TextIsEmpty
    \/ \E mode \in {"Long", "Short"} : TextMode(mode)

----------------------------------------------------------------------------
(* Selection in the table view: widgets/src/table_view.rs *)

MaxItems == 2

\* the entities of the items of the table view
Items == 1..MaxItems

SelectionModes == {"None", "Single", "Multiple"}

NoEvent == <<"none">>

\* the variables the table view leaves alone
nonTableVars == <<layoutVars, gradVars, brushVars, cubicVars, pathVars,
    stateVars, drawVars, skiaVars, clipVars, windowVars, textVars>>

\* Context::index_as_child of an item
index_as_child(entity) == entity - 1

\* the insertion without the clearing of the mode Single
InsertedKeepingOthers(set, x, mode) == set \cup {x}

\* lines 176-194: the set is cleared in the mode Single, then x is inserted
Inserted(set, x, mode) == IF mode = "Single" THEN {x} ELSE set \cup {x}

\* the symmetric difference of two sets
symmetric_difference(a, b) == (a \ b) \cup (b \ a)

\* a table view of the given selection mode with no item selected
TableOf(mode) ==
    /\ selection_mode = mode
    /\ selected_entities = {}
    /\ selected_indices = {}
    /\ item_selected = [e \in Items |-> FALSE]
    /\ item_enabled = [e \in Items |-> TRUE]
    /\ request_selection_toggle = [e \in Items |-> FALSE]
    /\ state_selected = {}
    /\ selection_event = NoEvent

TableInit == \E mode \in SelectionModes : TableOf(mode)

\* a table view in the mode Single with no item touched
TableIdle == TableOf("Single")

\* TableViewItemState::toggle_selection
toggle_selection(e) ==
    /\ ~request_selection_toggle[e]
    /\ request_selection_toggle' = [request_selection_toggle EXCEPT ![e] = TRUE]
    /\ UNCHANGED <<selection_mode, selected_entities, selected_indices,
                   item_selected, item_enabled, state_selected,
                   selection_event>>
    /\ UNCHANGED nonTableVars

\* the application enables or disables an item
SetEnabled(e) ==
    /\ item_enabled' = [item_enabled EXCEPT ![e] = ~@]
    /\ UNCHANGED <<selection_mode, selected_entities, selected_indices,
                   item_selected, request_selection_toggle, state_selected,
                   selection_event>>
    /\ UNCHANGED nonTableVars

\* TableViewItemState::update
ItemUpdate(e) ==
    /\ IF ~item_enabled[e] \/ ~request_selection_toggle[e]
       THEN UNCHANGED <<selected_entities, selected_indices,
                        request_selection_toggle, selection_event>>
       ELSE /\ request_selection_toggle' =
                   [request_selection_toggle EXCEPT ![e] = FALSE]
            /\ IF item_selected[e]
               THEN /\ selected_entities' = selected_entities \ {e}
                    /\ selected_indices' =
                           selected_indices \ {index_as_child(e)}
                    /\ UNCHANGED selection_event
               ELSE IF e \in selected_entities \/ selection_mode = "None"
               THEN UNCHANGED <<selected_entities, selected_indices,
                                selection_event>>
               ELSE /\ selected_entities' =
                           Inserted(selected_entities, e, selection_mode)
                    /\ selected_indices' =
                           Inserted(selected_indices, index_as_child(e),
                                    selection_mode)
                    /\ selection_event' = selected_indices'
    /\ UNCHANGED <<selection_mode, item_selected, item_enabled,
                   state_selected>>
    /\ UNCHANGED nonTableVars

\* TableViewState::update_post_layout
update_post_layout ==
    /\ item_selected' =
          [e \in Items |->
              IF e \in symmetric_difference(selected_entities, state_selected)
              THEN ~item_selected[e]
              ELSE item_selected[e]]
    /\ state_selected' = selected_entities
    /\ UNCHANGED <<selection_mode, selected_entities, selected_indices,
                   item_enabled, request_selection_toggle, selection_event>>
    /\ UNCHANGED nonTableVars

TableNext ==
    \/ \E e \in Items : toggle_selection(e)
    \/ \E e \in Items : SetEnabled(e)
    \/ \E e \in Items : ItemUpdate(e)
    \/ update_post_layout

----------------------------------------------------------------------------
(* The specifications: one per part of the program *)

\* the parts at rest, for the specifications of the first eight parts
RestInit == ClipInit /\ WindowInit /\ TextIdle /\ TableIdle

InitGradient ==
    RestInit /\ GradInit /\ LayoutInit /\ BrushInit /\ CubicIdle /\ PathInit
    /\ StateInit /\ DrawInit /\ SkiaInit

SpecGradient == InitGradient /\ [][GradNext]_vars

InitLayout ==
    RestInit /\ LayoutInit /\ GradIdle /\ BrushInit /\ CubicIdle /\ PathInit
    /\ StateInit /\ DrawInit /\ SkiaInit

SpecLayout == InitLayout /\ [][LayoutNext]_vars

InitBrush ==
    RestInit /\ BrushInit /\ LayoutInit /\ GradIdle /\ CubicIdle /\ PathInit
    /\ StateInit /\ DrawInit /\ SkiaInit

SpecBrush == InitBrush /\ [][BrushNext]_vars

InitCubic ==
    RestInit /\ CubicInit /\ LayoutInit /\ GradIdle /\ BrushInit /\ PathInit
    /\ StateInit /\ DrawInit /\ SkiaInit

SpecCubic == InitCubic /\ [][CubicNext]_vars

InitPath ==
    RestInit /\ PathInit /\ LayoutInit /\ GradIdle /\ BrushInit /\ CubicIdle
    /\ StateInit /\ DrawInit /\ SkiaInit

SpecPath == InitPath /\ [][PathNext]_vars

InitState ==
    RestInit /\ StateInit /\ LayoutInit /\ GradIdle /\ BrushInit /\ CubicIdle
    /\ PathInit
    /\ DrawInit /\ SkiaInit

SpecState == InitState /\ [][StateNext]_vars

InitSkia ==
    RestInit /\ SkiaInit /\ LayoutInit /\ GradIdle /\ BrushInit /\ CubicIdle
    /\ PathInit
    /\ StateInit /\ DrawInit

InitClip ==
    RestInit /\ LayoutInit /\ GradIdle /\ BrushInit /\ CubicIdle /\ PathInit
    /\ StateInit /\ DrawInit /\ SkiaInit

SpecClip == InitClip /\ [][ClipNext]_vars

InitWindow ==
    RestInit /\ LayoutInit /\ GradIdle /\ BrushInit /\ CubicIdle /\ PathInit
    /\ StateInit /\ DrawInit /\ SkiaInit

SpecWindow == InitWindow /\ [][WindowNext]_vars

InitText ==
    TextInit /\ ClipInit /\ WindowInit /\ TableIdle /\ LayoutInit /\ GradIdle
    /\ BrushInit /\ CubicIdle /\ PathInit
    /\ StateInit /\ DrawInit /\ SkiaInit

SpecText == InitText /\ [][TextNext]_vars

InitTable ==
    TableInit /\ ClipInit /\ WindowInit /\ TextIdle /\ LayoutInit /\ GradIdle
    /\ BrushInit /\ CubicIdle /\ PathInit
    /\ StateInit /\ DrawInit /\ SkiaInit

SpecTable == InitTable /\ [][TableNext]_vars

InitDraw ==
    RestInit /\ DrawInit /\ LayoutInit /\ GradIdle /\ BrushInit /\ CubicIdle
    /\ PathInit
    /\ StateInit /\ SkiaInit

SpecDraw == InitDraw /\ [][DrawNext]_vars

SpecSkia == InitSkia /\ [][SkiaNext]_vars

----------------------------------------------------------------------------
(* Claims about the layout system *)

\* C1: a call of run_with_context with an empty dirty list and first_run
\* false returns without calling measure or arrange and leaves the bounds
\* of every entity and the rest of the component store unchanged.
C1_CleanRunChangesNothing ==
    [][(lay_pc = "idle" /\ runs' = runs + 1
            /\ dirty_widgets = <<>> /\ ~first_run)
        => /\ lay_pc' = "idle"
           /\ measure_calls' = measure_calls
           /\ arrange_calls' = arrange_calls
           /\ bounds' = bounds
           /\ dirty_widgets' = dirty_widgets
           /\ desired_size' = desired_size]_vars

\* a call was short-circuited after an earlier call had laid the tree out
C1_Witness ==
    /\ last_run = "skipped"
    /\ arrange_calls > 0
    /\ dirty_widgets = <<>> /\ ~first_run
    /\ bounds[root] # Absent

\* C18: a call of run_with_context (the table has a layout object for the
\* root) calls the root's measure exactly when the dirty list is non-empty
\* or first_run is set, and a call that measured goes on to call arrange
C18_PassesRunWhenDirtyOrFirstRun ==
    [][/\ (lay_pc = "idle" /\ runs' = runs + 1 /\ root \in layouts)
            => ((measure_calls' = measure_calls + 1 /\ lay_pc' = "measuring")
                    <=> (dirty_widgets # <<>> \/ first_run))
       /\ (lay_pc = "measuring" /\ lay_pc' # "measuring")
            => (arrange_calls' = arrange_calls + 1
                    /\ lay_pc' = "arranging")]_vars

\* the first run, with first_run set and nothing marked, has called measure
\* and arrange
C18_Witness ==
    /\ lay_pc = "arranging"
    /\ first_run /\ dirty_widgets = <<>>
    /\ measure_calls = 1 /\ arrange_calls = 1

\* C19: when a run that executed both passes returns, the dirty list of the
\* root is empty
C19_FullRunEmptiesDirtyList ==
    [][(lay_pc = "arranging" /\ lay_pc' = "idle")
            => dirty_widgets' = <<>>]_vars

\* C20: a run that is not short-circuited goes Idle, Measuring, Arranging,
\* Idle: measure is called once from Idle, arrange is called once after
\* measure has returned, and the run ends after arrange
C20_MeasureThenArrange ==
    /\ [](measure_calls = arrange_calls
                + (IF lay_pc = "measuring" THEN 1 ELSE 0))
    /\ [][/\ measure_calls' # measure_calls
              => (/\ lay_pc = "idle" /\ lay_pc' = "measuring"
                  /\ measure_calls' = measure_calls + 1
                  /\ arrange_calls' = arrange_calls)
          /\ arrange_calls' # arrange_calls
              => (/\ lay_pc = "measuring" /\ lay_pc' = "arranging"
                  /\ arrange_calls' = arrange_calls + 1
                  /\ measure_calls' = measure_calls)
          /\ (lay_pc = "measuring" /\ lay_pc' # lay_pc)
              => lay_pc' = "arranging"
          /\ (lay_pc = "arranging" /\ lay_pc' # lay_pc)
              => (lay_pc' = "idle" /\ last_run' = "full")]_vars

\* two runs have gone through both passes
C20_Witness ==
    /\ lay_pc = "idle" /\ last_run = "full"
    /\ measure_calls = 2 /\ arrange_calls = 2

\* C21: a run that is not short-circuited on a table without a layout
\* object for the root panics: measure and arrange are not called, no bounds
\* and no desired size are written, and nothing runs after the panic
C21_MissingRootLayoutPanics ==
    /\ [][(/\ lay_pc = "idle" /\ runs' = runs + 1
           /\ ~(dirty_widgets = <<>> /\ ~first_run)
           /\ root \notin layouts)
            => (/\ lay_pc' = "panicked"
                /\ measure_calls' = measure_calls
                /\ arrange_calls' = arrange_calls
                /\ bounds' = bounds
                /\ desired_size' = desired_size)]_vars
    /\ [][lay_pc = "panicked"
            => (/\ lay_pc' = "panicked"
                /\ measure_calls' = measure_calls
                /\ arrange_calls' = arrange_calls
                /\ bounds' = bounds)]_vars

\* a run on a marked tree has panicked for want of the root's layout object
\* although other nodes have theirs
C21_Witness ==
    /\ lay_pc = "panicked"
    /\ root \notin layouts /\ layouts # {}
    /\ dirty_widgets # <<>>

----------------------------------------------------------------------------
(* Claims about build_gradient *)

Positions == [i \in 1..Len(g_stops) |-> g_stops[i].position]

\* the 1-based indices of the stops of a run of stops without a position
\* that lies between two stops with a position
InnerRuns ==
    {<<a, b>> \in (1..Len(stops)) \X (1..Len(stops)) :
        /\ a > 1 /\ a <= b /\ b < Len(stops)
        /\ \A k \in a..b : stops[k].pos = None
        /\ stops[a - 1].pos # None
        /\ stops[b + 1].pos # None}

\* C28: the scan of build_gradient never stands at a stop without a position
\* whose predecessor has no position either (the `unreachable!()` arm), and
\* the outer loop ends: the cursor never passes the end of the stop list and
\* every iteration moves it forward by at least one or breaks, so a call
\* makes at most one iteration per stop.
C28_ScanNeverUnreachableAndEnds ==
    /\ [](~AtUnreachable)
    /\ [](cursor <= Len(stops))
    /\ [][(GradExplicit \/ GradInterpolate)
            => (cursor' > cursor \/ g_pc' = "done")]_vars

\* the scan stands behind the anchor of a finished run, at a stop without a
\* position
C28_Witness ==
    /\ g_pc = "scan"
    /\ cursor > 1
    /\ cursor < Len(stops)
    /\ At(stops, cursor).pos = None
    /\ At(stops, cursor - 1).pos # None
    /\ At(stops, cursor - 2).pos = None

\* C2: the positions build_gradient emits are non-decreasing in output
\* order, for every stop list and every positive length.
C2_PositionsNonDecreasing ==
    \A i \in 1..(Len(g_stops) - 1) :
        FLe(g_stops[i].position, g_stops[i + 1].position)

\* C3: for a stop list of at least two stops every emitted position lies
\* in the closed interval [0, 1].
C3_PositionsInUnitInterval ==
    Len(stops) >= 2 =>
        \A i \in 1..Len(g_stops) :
            FLe(Zero, g_stops[i].position) /\ FLe(g_stops[i].position, One)

\* C4: the stops of a run without positions between an explicit stop
\* resolved at `from` and an anchor resolved at `to` (from <= to) are placed
\* at equal increments inside [from, to], and (from < to) not on the anchor.
C4_RunsEvenlySpaced ==
    g_pc = "done" =>
        \A r \in InnerRuns :
            LET a == r[1]
                b == r[2]
                from == g_stops[a - 1].position
                to == g_stops[b + 1].position
            IN  FLe(from, to) =>
                  /\ \A k \in a..b : /\ FLe(from, g_stops[k].position)
                                      /\ FLe(g_stops[k].position, to)
                  /\ \A k \in a..(b - 1) :
                        FSub(g_stops[k + 1].position, g_stops[k].position)
                          = FSub(g_stops[a].position, from)
                  /\ FLt(from, to) => FLt(g_stops[b].position, to)

\* C5: build_gradient emits exactly one resolved stop per input stop, in
\* input order and with the input stop's color.
C5_OneStopPerInput ==
    /\ Len(g_stops) <= Len(stops)
    /\ \A i \in 1..Len(g_stops) : g_stops[i].color = stops[i].color
    /\ g_pc = "done" => Len(g_stops) = Len(stops)

\* a stop list with an anchored run and a trailing run has been resolved
C5_Witness ==
    /\ g_pc = "done"
    /\ Len(stops) = 4
    /\ stops[1].pos = None /\ stops[2].pos # None
    /\ stops[3].pos = None /\ stops[4].pos = None
    /\ stops[1].color # stops[2].color
    /\ Len(g_stops) = 4

\* C6: with at least two stops, a first stop without a position resolves
\* to 0.0 and a last stop without a position resolves to 1.0.
C6_EndsResolveToZeroAndOne ==
    (g_pc = "done" /\ Len(stops) >= 2 /\ Len(g_stops) = Len(stops)) =>
        /\ stops[1].pos = None => g_stops[1].position = Zero
        /\ stops[Len(stops)].pos = None
              => g_stops[Len(stops)].position = One

----------------------------------------------------------------------------
(* Claims about brush_to_source *)

\* C7: a gradient brush with exactly one stop resolves to a solid colour
\* source of that stop's colour, whether the gradient was parsed or built
\* directly
C7_SingleStopGradientIsSolid ==
    (b_pc = "done" /\ brush.kind = "Gradient" /\ Len(brush.stops) = 1)
        => source = [kind |-> "Solid", color |-> brush.stops[1].color]

\* C8: a linear gradient at an angle resolves to the two points of the
\* gradient at that angle plus PI, with start and end exchanged (in the HEAD
\* side of the merge and in mod.rs)
C8_OppositeAnglesSwapEnds ==
    (b_pc = "done" /\ brush.kind = "Gradient" /\ brush.coords.kind = "Angle")
        => LET co == brush.coords
               opposite == AngleEnds(co.radians + PI, co.displacement, frame)
               here_c == AngleEndsCompiled(co.radians, frame)
               opposite_c == AngleEndsCompiled(co.radians + PI, frame)
           IN  /\ source.start = opposite[2]
               /\ source.end = opposite[1]
               /\ here_c[1] = opposite_c[2]
               /\ here_c[2] = opposite_c[1]

\* the corner or edge midpoint of the frame f named by its side on each axis
FramePoint(f, h_side, v_side) ==
    Point(CASE h_side = "left" -> f[1]
            [] h_side = "mid" -> FAdd(f[1], FDiv(f[3], I(2)))
            [] h_side = "right" -> FAdd(f[1], f[3]),
          CASE v_side = "top" -> f[2]
            [] v_side = "mid" -> FAdd(f[2], FDiv(f[4], I(2)))
            [] v_side = "bottom" -> FAdd(f[2], f[4]))

\* <<start, end>> of the eight directions as points of the frame
DirectionEnds(d, f) ==
    CASE d = "ToTop" ->
            <<FramePoint(f, "mid", "bottom"), FramePoint(f, "mid", "top")>>
      [] d = "ToTopRight" ->
            <<FramePoint(f, "left", "bottom"), FramePoint(f, "right", "top")>>
      [] d = "ToRight" ->
            <<FramePoint(f, "left", "mid"), FramePoint(f, "right", "mid")>>
      [] d = "ToBottomRight" ->
            <<FramePoint(f, "left", "top"), FramePoint(f, "right", "bottom")>>
      [] d = "ToBottom" ->
            <<FramePoint(f, "mid", "top"), FramePoint(f, "mid", "bottom")>>
      [] d = "ToBottomLeft" ->
            <<FramePoint(f, "right", "top"), FramePoint(f, "left", "bottom")>>
      [] d = "ToLeft" ->
            <<FramePoint(f, "right", "mid"), FramePoint(f, "left", "mid")>>
      [] d = "ToTopLeft" ->
            <<FramePoint(f, "right", "bottom"), FramePoint(f, "left", "top")>>

C23_ClosestSideGeometry ==
    (/\ b_pc = "done" /\ brush.kind = "Gradient"
     /\ brush.coords.kind = "Radial" /\ brush.coords.size = "ToClosestSide")
        => LET w == width(frame)
               h == height(frame)
           IN  /\ source.kind = "RadialGradient"
               /\ source.radius = FDiv(FMin(w, h), I(2))
               /\ source.center = FramePoint(frame, "mid", "mid")
               /\ source.scale_x =
                     IF ~brush.coords.circle /\ FGt(w, h) THEN FDiv(h, w)
                     ELSE One
               /\ source.scale_y =
                     IF ~brush.coords.circle /\ FGt(h, w) THEN FDiv(w, h)
                     ELSE One

\* ToClosestSide(false) in the frame (0, 0, 200, 100): radius 50 and a
\* horizontal scale of 1/2
C23_Witness ==
    /\ b_pc = "done" /\ brush.kind = "Gradient"
    /\ brush.coords.kind = "Radial" /\ brush.coords.size = "ToClosestSide"
    /\ ~brush.coords.circle
    /\ frame = <<I(0), I(0), I(200), I(100)>>
    /\ source.radius = I(50)
    /\ source.scale_x = R(1, 2)
    /\ source.scale_y = One

----------------------------------------------------------------------------
(* Claims about the bounds of curves and paths *)

\* the parameters the curve is sampled at
SampleTs == {R(k, 4) : k \in 0..4}

InRect(q, r) ==
    /\ FLe(r[1], q[1]) /\ FLe(q[1], FAdd(r[1], r[3]))
    /\ FLe(r[2], q[2]) /\ FLe(q[2], FAdd(r[2], r[4]))

\* C9: the rectangle cubic_rect returns contains the point of the curve at
\* every parameter t in [0, 1], also on an axis where the coefficient a is
\* zero
C9_CubicRectContainsCurve ==
    c_pc = "done"
        => \A t \in SampleTs :
               InRect(CubicAt(c_points[1], c_points[2], c_points[3],
                              c_points[4], PFrom(t)), c_rect)

\* the points of a path of MoveTo and LineTo operations
PointsOf(ops) == {ops[k].p : k \in 1..Len(ops)}

MinOf(S) == CHOOSE v \in S : \A w \in S : FLe(v, w)
MaxOf(S) == CHOOSE v \in S : \A w \in S : FLe(w, v)

OnlyLines(ops) == \A k \in 1..Len(ops) : ops[k].op \in {"MoveTo", "LineTo"}

\* C10: for a path of MoveTo and LineTo operations alone path_rect is
\* (min x, min y, max x - min x, max y - min y) over the points of the path
C10_LinePathBounds ==
    (Len(path) > 0 /\ OnlyLines(path))
        => LET xs == {q[1] : q \in PointsOf(path)}
               ys == {q[2] : q \in PointsOf(path)}
           IN  path_rect(path) =
                   <<MinOf(xs), MinOf(ys),
                     FSub(MaxOf(xs), MinOf(xs)), FSub(MaxOf(ys), MinOf(ys))>>

\* a path of three LineTo / MoveTo points where the later points lie left of
\* and above the first
C10_Witness ==
    /\ Len(path) = 3
    /\ OnlyLines(path)
    /\ FLt(path[2].p[1], path[1].p[1])
    /\ FLt(path[3].p[2], path[2].p[2])
    /\ FGt(path[3].p[1], path[1].p[1])

\* the rectangle the QuadTo branch of path_rect contributes for the
\* operation at index i
InlineQuadRect(ops, i) ==
    LET e == OpExtent(ops, i)
    IN  <<e[1], e[2], FSub(e[3], e[1]), FSub(e[4], e[2])>>

\* C11: for every quadratic curve of the path the bounds path_rect computes
\* inline contain the curve (its extremum included, on x and on y) and are the
\* rectangle quad_rect returns for the same three points
C11_QuadBoundsAgree ==
    \A i \in 0..(Len(path) - 1) :
        At(path, i).op = "QuadTo"
            => LET p0 == CurveStart(path, i)
                   o == At(path, i)
               IN  /\ InlineQuadRect(path, i) = quad_rect(p0, o.p1, o.p)
                   /\ \A t \in SampleTs :
                          InRect(QuadAt(p0, o.p1, o.p, PFrom(t)),
                                 InlineQuadRect(path, i))

NotClose(o) == o.op # "Close"

\* C12: the bounds of a path are the bounds of the same path without its
\* Close operations, wherever they stand (a Close as first operation
\* included)
C12_CloseKeepsBounds ==
    path_rect(path) = path_rect(SelectSeq(path, NotClose))

----------------------------------------------------------------------------
(* Claims about the canvas state *)

\* C24: bezier_curve_to appends one CubicTo with the given end point to the
\* current path, and the path holds as many commands as the tracker was told
C24_BezierIsAppended ==
    /\ [](Len(path) = tracked)
    /\ [][\A cp1 \in ControlPoints, cp2 \in ControlPoints, p \in PathPoints :
            bezier_curve_to(cp1, cp2, p)
                => path' = Append(path, CubicTo(cp1, cp2, p))]_vars

\* C25: a call of clip() sets the clip rectangle and the clip flag, pushes
\* one clip level and returns
C25_ClipPushesOnceAndReturns ==
    [][/\ (clip_pc = "idle" /\ clip_pc' = "in clip")
            => (/\ clip' /\ clip_rect' = last_rect
                /\ clip_depth' = clip_depth + 1)
       /\ clip_pc = "in clip"
            => (clip_pc' = "idle" /\ clip_depth' = clip_depth)]_vars

\* C13: restore() with no saved state (never saved, or the saved state
\* already consumed) changes neither the configuration nor the clip flag,
\* the clip rectangle or the depth of the clip stack
C13_RestoreWithoutSaveIsNoOp ==
    [][(restore /\ saved_config = NoConfig)
          => (/\ config' = config
              /\ clip' = clip
              /\ clip_rect' = clip_rect
              /\ clip_depth' = clip_depth)]_vars

\* C15: save() and restore() are a stack: every restore() that answers a
\* save() yields the configuration of the latest save() not yet answered
C15_SaveRestoreIsStack ==
    [][(restore /\ saved_at # <<>>) => config' = Head(saved_at)]_vars

\* C14: a restore() that answers a save() leaves fill brush, stroke brush,
\* line width, alpha and font as they were at that save(), whatever setters
\* and path commands were called in between
C14_RestoreYieldsSavedState ==
    [][(skia_restore /\ sk_saved_at # <<>>)
          => (/\ sk_config' = Head(sk_saved_at).config
              /\ sk_paint'.stroke_width = Head(sk_saved_at).stroke_width)]_vars

----------------------------------------------------------------------------
(* Claims about drawing *)

\* C16: fill() and stroke() on an empty path reach the draw target with no
\* call and resolve no brush; on a path with at least one command the brush
\* is resolved against the bounding rectangle of the path
C16_EmptyPathDrawsNothing ==
    [][/\ ((fill \/ stroke) /\ path = <<>>)
            => (draws' = draws /\ last_draw' = last_draw)
       /\ ((fill \/ stroke) /\ path # <<>>)
            => (draws' = draws + 1 /\ last_draw'.frame = path_rect(path))]_vars

\* C17: an operation that implements solid colours only never proceeds with
\* a gradient brush by drawing with a colour of its own
C17_GradientIsNeverSubstituted ==
    [][/\ ((\E text \in Texts : fill_text(text))
              /\ config.fill_style.kind # "SolidColor")
            => draws' = draws
       /\ \A b \in StyleBrushes :
              (clear(b) /\ b.kind # "SolidColor") => draws' = draws]_vars

----------------------------------------------------------------------------
(* Claims about the window *)

\* C26: is_open() returns false once receive_requests has handled a Close
\* request, and true before
C26_IsOpenFollowsCloseFlag ==
    [][is_open => (open_result' = IF w_close THEN "false" ELSE "true")]_vars

\* C30: a window event that carries the id of another window leaves the
\* update and redraw flags and mouse_pos unchanged and calls no callback of
\* the adapter
C30_ForeignEventsAreIgnored ==
    [][\A e \in Events :
          (drain_events(e) /\ e.window_id # OwnId)
              => UNCHANGED <<w_update, w_redraw, mouse_pos, adapter_calls,
                             adapter_last>>]_vars

----------------------------------------------------------------------------
(* Claims about Text *)

\* C27: two texts with the same history, one in short mode and one in long
\* mode, hold the same characters and have given the same result (or have
\* both panicked) after every call
C27_ModesAgree ==
    /\ text_a.chars = text_b.chars
    /\ out_a = out_b

----------------------------------------------------------------------------
(* Claims about the table view *)

\* C29: in the selection mode Single the parent's selected_entities and
\* selected_indices hold at most one element each, and in the mode None they
\* are empty
C29_SingleSelectsAtMostOne ==
    /\ selection_mode = "Single"
        => (Cardinality(selected_entities) <= 1
                /\ Cardinality(selected_indices) <= 1)
    /\ selection_mode = "None"
        => (selected_entities = {} /\ selected_indices = {})

\* the second item was selected while the first one was: the first one is
\* still shown as selected
C29_Witness ==
    /\ selection_mode = "Single"
    /\ selected_entities = {2} /\ selected_indices = {1}
    /\ item_selected[1] /\ ~item_selected[2]

====
